---- MODULE Spec2Model ----
(***************************************************************************)
(* The asynchronous evaluation pipeline of frontend/src/lib:               *)
(*   evalService.ts  the in-memory evaluation queue and its consumer loop  *)
(*   evalStore.ts    the JSON-file store of evaluation results             *)
(*                                                                         *)
(* A request's three texts (query, response, context) are carried as one   *)
(* token: the k-th accepted request carries the token k in `query`.        *)
(* fs.writeFile truncates its file and then writes the new text: while the *)
(* write is in progress, and after it has failed part-way, the file holds  *)
(* text that JSON.parse rejects.                                           *)
(***************************************************************************)
EXTENDS Naturals, Integers, Sequences, FiniteSets

(* ------------------------------ bounds --------------------------------- *)

\* evalService.ts:17 sets MAX_QUEUE_SIZE to 100; the model checks the
\* scheduler for a scaled-down capacity, and every formula is stated in
\* terms of MAX_QUEUE_SIZE.
MAX_QUEUE_SIZE == 2

\* number of queueEvaluation calls made by the chat route
MaxCalls == 4

(* ------------------------- program constants --------------------------- *)

\* evalService.ts:18
MAX_RETRIES == 3

\* number of judge calls and store writes the environment lets fail: as many
\* as it takes to use up the retries of one item
MaxFailures == MAX_RETRIES + 1

\* evalTypes.ts:63-68; sampleRate is kept in percent (0.1 is 10)
DEFAULT_EVAL_CONFIG ==
  [enabled |-> TRUE, sampleRate |-> 10, flagThreshold |-> 3,
   maxStored |-> 1000]

(* ------------------------------- state --------------------------------- *)

VARIABLES
  evaluationQueue,   \* evalService.ts:31  sequence of QueueItem
  isProcessing,      \* evalService.ts:32
  droppedCount,      \* evalService.ts:33
  active,            \* the processQueue activations past the guard of line 85,
                     \* each with its position, its local `item` and, inside
                     \* runEvaluation, the local `evaluation`
  idCounter,         \* number of ids generateId has handed out
  evalFile,          \* contents of EVAL_FILE_PATH: the durable log, newest first
  evaluationsCache,  \* evalStore.ts:29
  calls,             \* history: number of queueEvaluation calls made
  accepted,          \* history: number of those that returned true
  attempts,          \* history: one record per item taken off the queue
  failures,          \* history: number of failed judge calls and store writes
  configFile,        \* contents of CONFIG_FILE_PATH, NoValue while it is absent
  configCache,       \* evalStore.ts:30
  writeLock,         \* evalStore.ts:33  the calls whose lock is not released,
                     \* in the order they chained themselves
  storeCalls,        \* the calls made on the store and single attempts of
                     \* runEvaluation, each with its position and its locals
  lockOrder,         \* history: the calls in the order they entered
                     \* withWriteLock
  written,           \* history: the results in the order their durable write
                     \* took effect
  unreadable,        \* the files that fs.readFile or JSON.parse fails on
                     \* (missing, or holding text that is not JSON)
  cacheObjects       \* which objects the entries of evaluationsCache are: the
                     \* number of the call that made them, 0 before any

vars == <<evaluationQueue, isProcessing, droppedCount, active, idCounter,
          evalFile, evaluationsCache, calls, accepted, attempts, failures,
          configFile, configCache, writeLock, storeCalls, lockOrder, written,
          unreadable, cacheObjects>>

\* the state of the scheduler of evalService.ts
schedVars == <<evaluationQueue, isProcessing, droppedCount, active, calls,
               accepted, attempts, failures>>

\* the state that only the fine-grained store actions change
storeVars == <<configFile, configCache, writeLock, storeCalls, lockOrder,
               written, unreadable, cacheObjects>>

\* the state of the store that the consumer's attempt leaves alone
callVars == <<configFile, writeLock, storeCalls, lockOrder, cacheObjects>>

NoValue == [none |-> TRUE]

\* a cache that holds a list, evalStore.ts:29
Cached(list) == [list |-> list]

\* interface QueueItem, evalService.ts:22-28
QueueItem(q, rc, err) == [query |-> q, retryCount |-> rc, lastError |-> err]

\* the EvaluationResult built by runEvaluation, evalService.ts:227-246
EvaluationResult(id, data) == [id |-> id, query |-> data.query]

\* one activation of processQueue suspended at an await: its position, the
\* local `item` of the loop, and inside runEvaluation and saveEvaluation
\* the locals `config`, `evaluation` and `newEvaluations` (`data`)
Activation(pc, item, evaluation) ==
  [pc |-> pc, item |-> item, evaluation |-> evaluation, config |-> NoValue,
   data |-> NoValue]

Queries(q) == {q[k].query : k \in 1..Len(q)}

(* ------------------------------ evalStore ------------------------------ *)

Range(s) == {s[k] : k \in 1..Len(s)}

MergeOverDefaults(current, partial) ==
  [f \in DOMAIN DEFAULT_EVAL_CONFIG \cup DOMAIN partial |->
     IF f \in DOMAIN partial THEN partial[f] ELSE DEFAULT_EVAL_CONFIG[f]]

\* the object spread { ...current, ...partial } of evalStore.ts:78 and 93
Merge(current, partial) ==
  [f \in DOMAIN current \cup DOMAIN partial |->
     IF f \in DOMAIN partial THEN partial[f] ELSE current[f]]

LogFile == "evaluations.json"

ConfigFile == "eval-config.json"

\* what fs.readFile and JSON.parse of evalStore.ts:77-78 give for the config
\* file: NoValue when either throws
ReadConfigFile(file, failing) ==
  IF ConfigFile \in failing THEN NoValue ELSE file

ReadEvaluationsUnchecked(file, failing) == file

\* readEvaluationsFromDisk, evalStore.ts:102-109: the parsed list, or the
\* empty list when fs.readFile or JSON.parse throws
ReadEvaluationsFromDisk(file, failing) ==
  IF LogFile \in failing THEN <<>> ELSE file

\* getConfig without a cached value, evalStore.ts:76-83: the parsed record
\* over the defaults, or the defaults when the file cannot be read
LoadConfig(file) ==
  IF file = NoValue
    THEN DEFAULT_EVAL_CONFIG
    ELSE Merge(DEFAULT_EVAL_CONFIG, file)

\* what getConfig returns, evalStore.ts:73-84
GetConfigResult(cache, file) ==
  IF cache # NoValue THEN cache ELSE LoadConfig(file)

\* configCache after getConfig has read the file: line 79 sets it when the
\* file was read and parsed, whatever it held before
CacheAfterLoad(cache, file) ==
  IF file = NoValue THEN cache ELSE LoadConfig(file)

\* a score that is not a number
NaN == [type |-> "NaN"]

Null == [type |-> "null"]

\* JSON.stringify writes NaN as null
JsonValue(v) == IF v = NaN THEN Null ELSE v

\* what JSON.parse (evalStore.ts:105) reads back from the text that
\* JSON.stringify (evalStore.ts:143) wrote for a list of results
JsonRoundTrip(evaluations) ==
  [k \in 1..Len(evaluations) |->
     IF "scores" \in DOMAIN evaluations[k]
       THEN [evaluations[k] EXCEPT
               !.scores = [m \in DOMAIN @ |-> JsonValue(@[m])],
               !.averageScore = JsonValue(@)]
       ELSE evaluations[k]]

\* what a getConfig call made in the current state returns,
\* evalStore.ts:73-84
GetConfig ==
  GetConfigResult(configCache, ReadConfigFile(configFile, unreadable))

\* the exported clearCache, evalStore.ts:211-214
ClearCache ==
  /\ evaluationsCache' = NoValue
  /\ configCache' = NoValue
  /\ UNCHANGED <<evaluationQueue, isProcessing, droppedCount, active, calls,
                 accepted, attempts, failures>>
  /\ UNCHANGED <<idCounter, evalFile, configFile, writeLock, storeCalls,
                 lockOrder, written, unreadable, cacheObjects>>

SaveEvaluationAppends(current, evaluation, maxStored) ==
  LET newEvaluations == Append(current, evaluation)
  IN  IF Len(newEvaluations) > maxStored
        THEN SubSeq(newEvaluations, 1, maxStored)
        ELSE newEvaluations

SaveEvaluationUntrimmed(current, evaluation, maxStored) ==
  <<evaluation>> \o current

\* the list saveEvaluation writes, evalStore.ts:135-140
NewEvaluations(current, evaluation, maxStored) ==
  LET newEvaluations == <<evaluation>> \o current
  IN  IF Len(newEvaluations) > maxStored
        THEN SubSeq(newEvaluations, 1, maxStored)
        ELSE newEvaluations

(* ----------------------------- evalService ----------------------------- *)

ProcessingNotSetOnEntry == FALSE

\* the value line 87 stores into isProcessing
ProcessingOnEntry == TRUE

\* the guards of lines 72 and 85: queueEvaluation calls processQueue only
\* when isProcessing is false, and processQueue returns at once when
\* isProcessing is true or the queue is empty
PassesGuard(processing, queue) == ~processing /\ Len(queue) # 0

ShiftLast(queue) == <<queue[Len(queue)], SubSeq(queue, 1, Len(queue) - 1)>>

\* evaluationQueue.shift(), line 90: <<the item removed, the queue left>>
Shift(queue) == <<Head(queue), Tail(queue)>>

\* history: the attempt that starts when `item` is taken off the queue
Attempt(item) ==
  [query |-> item.query, retryCount |-> item.retryCount,
   outcome |-> "pending", waiting |-> {}]

\* the index in `attempts` of the attempt an activation is making
CurrentAttempt(a) ==
  CHOOSE k \in 1..Len(attempts) :
    /\ attempts[k].query = a.item.query
    /\ \A j \in (k+1)..Len(attempts) : attempts[j].query # a.item.query

TakeNextAwaited(queue, others) ==
  LET s == Shift(queue)
  IN  /\ evaluationQueue' = s[2]
      /\ active' = others \cup {Activation("delay", s[1], NoValue)}
      /\ attempts' = Append(attempts, [Attempt(s[1]) EXCEPT !.outcome = "judge"])

\* The loop of lines 89-94 from its head to the first await: take the head
\* item and enter runEvaluation, which suspends in `await getConfig()`;
\* getConfig has tested the cache, evalStore.ts:74, and returns the cached
\* config (kept in `config`) or has started to read the config file.
TakeNext(queue, others) ==
  LET s == Shift(queue)
  IN  /\ evaluationQueue' = s[2]
      /\ active' = others \cup
           {[Activation("getConfig", s[1], NoValue) EXCEPT !.config = configCache]}
      /\ attempts' = Append(attempts, Attempt(s[1]))

QueueFullOffByOne(queue) == Len(queue) > MAX_QUEUE_SIZE

\* the size check of line 60
QueueFull(queue) == Len(queue) >= MAX_QUEUE_SIZE

\* queueEvaluation on a full queue, lines 60-64: returns false
EnqueueRejected ==
  /\ calls < MaxCalls
  /\ QueueFull(evaluationQueue)
  /\ droppedCount' = droppedCount + 1
  /\ calls' = calls + 1
  /\ UNCHANGED storeVars
  /\ UNCHANGED <<evaluationQueue, isProcessing, active, idCounter, evalFile,
                 evaluationsCache, accepted, attempts, failures>>

PushFront(queue, item) == <<item>> \o queue

\* evaluationQueue.push(item), lines 66-69 and 103
Push(queue, item) == Append(queue, item)

\* queueEvaluation below capacity, lines 66-78: returns true.  When no
\* consumer is running, processQueue runs synchronously up to its first await.
EnqueueAccepted ==
  /\ calls < MaxCalls
  /\ ~QueueFull(evaluationQueue)
  /\ LET queue == Push(evaluationQueue, QueueItem(accepted + 1, 0, "none"))
     IN  IF PassesGuard(isProcessing, queue)
           THEN /\ isProcessing' = ProcessingOnEntry
                /\ TakeNext(queue, active)
           ELSE /\ evaluationQueue' = queue
                /\ UNCHANGED <<isProcessing, active, attempts>>
  /\ calls' = calls + 1
  /\ accepted' = accepted + 1
  /\ UNCHANGED storeVars
  /\ UNCHANGED <<droppedCount, idCounter, evalFile, evaluationsCache, failures>>

\* runEvaluation line 215: `await getConfig()` resumes with the config that
\* was cached when it was called, or, evalStore.ts:77-83, with the record of
\* the config file over the defaults, which is cached, or with the defaults
GetConfigDone ==
  \E a \in active :
    /\ a.pc = "getConfig"
    /\ LET file == ReadConfigFile(configFile, unreadable)
       IN  IF a.config # NoValue
             THEN /\ active' = (active \ {a}) \cup {[a EXCEPT !.pc = "judge"]}
                  /\ UNCHANGED configCache
             ELSE /\ active' = (active \ {a}) \cup
                       {[a EXCEPT !.pc = "judge", !.config = LoadConfig(file)]}
                  /\ configCache' = CacheAfterLoad(configCache, file)
    /\ UNCHANGED callVars
    /\ UNCHANGED <<written, unreadable>>
    /\ UNCHANGED <<evaluationQueue, isProcessing, droppedCount, idCounter,
                   evalFile, evaluationsCache, calls, accepted, attempts,
                   failures>>

\* runEvaluation lines 218-248: judgeResponse returns a score vector, the
\* EvaluationResult is built and saveEvaluation is called
JudgeReturns ==
  \E a \in active :
    /\ a.pc = "judge"
    /\ idCounter' = idCounter + 1
    /\ active' = (active \ {a}) \cup
         {[a EXCEPT !.pc = "save",
                    !.evaluation = EvaluationResult(idCounter + 1, a.item)]}
    /\ UNCHANGED storeVars
    /\ UNCHANGED <<evaluationQueue, isProcessing, droppedCount, evalFile,
                   evaluationsCache, calls, accepted, attempts, failures>>

RetryAllowedInclusive(item) == item.retryCount <= MAX_RETRIES

\* line 100
RetryAllowed(item) == item.retryCount < MAX_RETRIES

RequeuedKeepsCount(item, errorMessage) ==
  QueueItem(item.query, item.retryCount, errorMessage)

\* the item as lines 101-102 change it before it is pushed again
Requeued(item, errorMessage) ==
  QueueItem(item.query, item.retryCount + 1, errorMessage)

CatchCountsDrop(a, errorMessage) ==
  /\ failures < MaxFailures
  /\ failures' = failures + 1
  /\ evaluationQueue' =
       IF RetryAllowed(a.item)
         THEN Push(evaluationQueue, Requeued(a.item, errorMessage))
         ELSE evaluationQueue
  /\ droppedCount' =
       IF RetryAllowed(a.item) THEN droppedCount ELSE droppedCount + 1
  /\ active' = (active \ {a}) \cup {[a EXCEPT !.pc = "delay"]}
  /\ attempts' = [attempts EXCEPT ![CurrentAttempt(a)] =
                    [@ EXCEPT !.outcome = errorMessage,
                              !.waiting = Queries(evaluationQueue)]]
  /\ UNCHANGED storeVars
  /\ UNCHANGED <<isProcessing, idCounter, evalFile, evaluationsCache, calls,
                 accepted>>

\* the catch block of processQueue, lines 95-108, run when runEvaluation
\* throws; the loop then suspends in the pacing delay of line 112
Catch(a, errorMessage) ==
  /\ failures < MaxFailures
  /\ failures' = failures + 1
  /\ evaluationQueue' =
       IF RetryAllowed(a.item)
         THEN Push(evaluationQueue, Requeued(a.item, errorMessage))
         ELSE evaluationQueue
  /\ active' = (active \ {a}) \cup {[a EXCEPT !.pc = "delay"]}
  /\ attempts' = [attempts EXCEPT ![CurrentAttempt(a)] =
                    [@ EXCEPT !.outcome = errorMessage,
                              !.waiting = Queries(evaluationQueue)]]
  /\ UNCHANGED storeVars
  /\ UNCHANGED <<isProcessing, droppedCount, idCounter, evalFile,
                 evaluationsCache, calls, accepted>>

\* judgeResponse throws, lines 195-198: generateText rejected, or JSON.parse
\* of line 183 rejected the block of the reply (JudgeResponse below)
JudgeThrows ==
  \E a \in active :
    /\ a.pc = "judge"
    /\ Catch(a, "judge")

\* saveEvaluation, evalStore.ts:128-129: ensureDataDir returns and getConfig
\* is called, which returns the cached config, so that the read of the log
\* starts, line 132, or starts to read the config file
SaveMkdirReturns ==
  \E a \in active :
    /\ a.pc = "save"
    /\ active' = (active \ {a}) \cup
         {IF configCache # NoValue
            THEN [a EXCEPT !.pc = "saveRead", !.config = configCache]
            ELSE [a EXCEPT !.pc = "saveGetConfig"]}
    /\ UNCHANGED storeVars
    /\ UNCHANGED <<evaluationQueue, isProcessing, droppedCount, idCounter,
                   evalFile, evaluationsCache, calls, accepted, attempts,
                   failures>>

\* the getConfig of evalStore.ts:129 resumes from reading the config file,
\* lines 77-83, and the read of the log starts, line 132
SaveGetConfigReturns ==
  \E a \in active :
    /\ a.pc = "saveGetConfig"
    /\ LET file == ReadConfigFile(configFile, unreadable)
       IN  /\ active' = (active \ {a}) \cup
                {[a EXCEPT !.pc = "saveRead", !.config = LoadConfig(file)]}
           /\ configCache' = CacheAfterLoad(configCache, file)
    /\ UNCHANGED callVars
    /\ UNCHANGED <<written, unreadable>>
    /\ UNCHANGED <<evaluationQueue, isProcessing, droppedCount, idCounter,
                   evalFile, evaluationsCache, calls, accepted, attempts,
                   failures>>

\* saveEvaluation, evalStore.ts:132-143: the log is read, the new list is
\* built and fs.writeFile opens the log; the file is truncated and holds no
\* list until the write is complete
SaveWriteStarts ==
  \E a \in active :
    /\ a.pc = "saveRead"
    /\ LET newEvaluations ==
             NewEvaluations(ReadEvaluationsFromDisk(evalFile, unreadable),
                            a.evaluation, a.config.maxStored)
       IN  active' = (active \ {a}) \cup
             {[a EXCEPT !.pc = "write", !.data = Cached(newEvaluations)]}
    /\ evalFile' = <<>>
    /\ unreadable' = unreadable \cup {LogFile}
    /\ UNCHANGED callVars
    /\ UNCHANGED <<evaluationQueue, isProcessing, droppedCount, idCounter,
                   evaluationsCache, configCache, calls, accepted, attempts,
                   failures, written>>

\* fs.writeFile of evalStore.ts:143 has written the whole text: the file
\* holds the new list; its promise has not settled yet
SaveWritten ==
  \E a \in active :
    /\ a.pc = "write"
    /\ evalFile' = JsonRoundTrip(a.data.list)
    /\ unreadable' = unreadable \ {LogFile}
    /\ written' = Append(written, a.evaluation.id)
    /\ active' = (active \ {a}) \cup {[a EXCEPT !.pc = "written"]}
    /\ UNCHANGED callVars
    /\ UNCHANGED <<evaluationQueue, isProcessing, droppedCount, idCounter,
                   evaluationsCache, configCache, calls, accepted, attempts,
                   failures>>

\* saveEvaluation completes, evalStore.ts:146: the cache is set and
\* runEvaluation returns
SaveReturns ==
  \E a \in active :
    /\ a.pc = "written"
    /\ evaluationsCache' = a.data
    /\ active' = (active \ {a}) \cup {[a EXCEPT !.pc = "delay"]}
    /\ attempts' = [attempts EXCEPT ![CurrentAttempt(a)].outcome = "ok"]
    /\ UNCHANGED storeVars
    /\ UNCHANGED <<evaluationQueue, isProcessing, droppedCount, idCounter,
                   evalFile, calls, accepted, failures>>

SaveThrowsUnhandled ==
  \E a \in active :
    /\ a.pc \in {"save", "saveRead"}
    /\ failures < MaxFailures
    /\ failures' = failures + 1
    /\ active' = (active \ {a}) \cup {[a EXCEPT !.pc = "delay"]}
    /\ attempts' = [attempts EXCEPT ![CurrentAttempt(a)] =
                      [@ EXCEPT !.outcome = "store",
                                !.waiting = Queries(evaluationQueue)]]
    /\ UNCHANGED storeVars
    /\ UNCHANGED <<evaluationQueue, isProcessing, droppedCount, idCounter,
                   evalFile, evaluationsCache, calls, accepted>>

\* saveEvaluation rejects before the log is opened: ensureDataDir throws,
\* or, the config and the log read, fs.writeFile cannot open the file
SaveThrows ==
  \E a \in active :
    /\ a.pc \in {"save", "saveRead"}
    /\ Catch(a, "store")

\* fs.writeFile rejects after it has truncated the file (the disk is full,
\* the size limit is reached): the file is left with part of the new text
SaveWriteThrows ==
  \E a \in active :
    /\ a.pc = "write"
    /\ Catch(a, "store")

DelayDoneLeavesLoop ==
  \E a \in active :
    /\ a.pc = "delay"
    /\ isProcessing' = FALSE
    /\ active' = active \ {a}
    /\ UNCHANGED <<evaluationQueue, attempts>>
    /\ UNCHANGED storeVars
    /\ UNCHANGED <<droppedCount, idCounter, evalFile, evaluationsCache, calls,
                   accepted, failures>>

\* the pacing delay of line 112 ends: the while condition of line 89 is
\* evaluated again, and either the next item is taken or the loop is left
\* and line 115 clears isProcessing
DelayDone ==
  \E a \in active :
    /\ a.pc = "delay"
    /\ IF Len(evaluationQueue) > 0
         THEN /\ TakeNext(evaluationQueue, active \ {a})
              /\ UNCHANGED isProcessing
         ELSE /\ isProcessing' = FALSE
              /\ active' = active \ {a}
              /\ UNCHANGED <<evaluationQueue, attempts>>
    /\ UNCHANGED storeVars
    /\ UNCHANGED <<droppedCount, idCounter, evalFile, evaluationsCache, calls,
                   accepted, failures>>

\* getQueueStatus, lines 270-277
GetQueueStatus ==
  [pending |-> Len(evaluationQueue), processing |-> isProcessing,
   dropped |-> droppedCount, maxSize |-> MAX_QUEUE_SIZE]

(* ----------------------- evalStore.ts, step by step -------------------- *)

\* number of calls made on the store
MaxStoreCalls == 3

\* the partial configs given to saveConfig; the schema of
\* app/api/evaluations/route.ts:33-38 admits flagThreshold in 1..5 and
\* maxStored in 1..10000
Partials ==
  { [flagThreshold |-> 4],
    [maxStored |-> 1],
    [flagThreshold |-> 2, maxStored |-> 2] }

\* the config record an earlier run of the server may have left on disk
StoredConfigs == { [enabled |-> FALSE, flagThreshold |-> 2, maxStored |-> 2] }

\* a call on the store: `op` is the function called, `pc` its position,
\* `arg` the partial config of saveConfig, `evaluation` the result that
\* saveEvaluation is given, `config` and `data` its locals; for a returned
\* list, `objects` tells which objects its entries are (as cacheObjects);
\* `quiet` is history: whether the call was made while no call of the other
\* kind (reader or writer) was in flight; `request` is the body of the
\* PATCH request the call was made for; `before` is history: the files as
\* they were when the call got the write lock
StoreCall(op, pc, arg, evaluation) ==
  [op |-> op, pc |-> pc, arg |-> arg, evaluation |-> evaluation,
   config |-> NoValue, data |-> NoValue, error |-> "none",
   reply |-> NoValue, configured |-> NoValue, objects |-> 0,
   quiet |-> FALSE, request |-> NoValue, before |-> NoValue]

\* history: the two files of the store in the current state
Files == [log |-> evalFile, config |-> configFile, failing |-> unreadable]

\* the positions inside the function given to withWriteLock
BodyPcs == {"mkdir", "config", "read", "write", "writing", "written"}

InBody(call) == call.pc \in BodyPcs

Finished(call) == call.pc \in {"returned", "thrown"}

LockNotAwaited(id, chain) == id \in Range(chain)

\* previousLock.then(...), evalStore.ts:46: the function runs once every
\* lock chained before this one is released
HoldsLock(id, chain) == chain # <<>> /\ Head(chain) = id

\* releaseLock() in the finally of evalStore.ts:49-51
Release(chain, id) == SelectSeq(chain, LAMBDA x : x # id)

\* no call with one of the ops is in flight
NoneInFlight(ops) ==
  \A id \in DOMAIN storeCalls :
    storeCalls[id].op \in ops => Finished(storeCalls[id])

\* withWriteLock, evalStore.ts:38-45: the call chains itself behind the
\* current lock
EnterWriteLock(call) ==
  /\ storeCalls' =
       Append(storeCalls,
              [call EXCEPT !.quiet = NoneInFlight({"getEvaluations", "getStats",
                                                  "getFlaggedEvaluations"})])
  /\ writeLock' = Append(writeLock, Len(storeCalls) + 1)
  /\ lockOrder' = Append(lockOrder, Len(storeCalls) + 1)

\* saveEvaluation(evaluation) is called, evalStore.ts:126-127
IssueSaveEvaluation ==
  /\ Len(storeCalls) < MaxStoreCalls
  /\ EnterWriteLock(StoreCall("saveEvaluation", "queued", NoValue,
        EvaluationResult(idCounter + 1, [query |-> idCounter + 1])))
  /\ idCounter' = idCounter + 1
  /\ UNCHANGED <<evalFile, evaluationsCache, configFile, configCache, written>>
  /\ UNCHANGED <<unreadable, cacheObjects>>
  /\ UNCHANGED schedVars

\* saveConfig(partial) is called, evalStore.ts:89-90
IssueSaveConfig ==
  \E partial \in Partials :
    /\ Len(storeCalls) < MaxStoreCalls
    /\ EnterWriteLock(StoreCall("saveConfig", "queued", partial, NoValue))
    /\ UNCHANGED <<idCounter, evalFile, evaluationsCache, configFile,
                   configCache, written>>
    /\ UNCHANGED <<unreadable, cacheObjects>>
    /\ UNCHANGED schedVars

\* the largest number of results getFlaggedEvaluations returns;
\* evalStore.ts:203 uses 500, the model a scaled-down value
MAX_LIMIT == 2

SafeLimitUnclamped(limit) == limit

\* safeLimit, evalStore.ts:203: Math.min(Math.max(1, limit), 500)
SafeLimit(limit) ==
  IF limit < 1 THEN 1 ELSE IF limit > MAX_LIMIT THEN MAX_LIMIT ELSE limit

\* evaluations.filter(e => e.isFlagged), evalStore.ts:205 and 188
FlaggedOnly(evaluations) == SelectSeq(evaluations, LAMBDA e : e.isFlagged)

\* evaluations.slice(0, n)
Slice(evaluations, n) ==
  SubSeq(evaluations, 1, IF n < Len(evaluations) THEN n ELSE Len(evaluations))

\* getFlaggedEvaluations once getEvaluations has returned, evalStore.ts:205
FlaggedResult(evaluations, limit) ==
  Slice(FlaggedOnly(evaluations), SafeLimit(limit))

\* the value of a score in a sum: null counts as 0
Addend(score) == IF score.type = "number" THEN score.value ELSE 0

SumOfNewest(evaluations, m) ==
  IF evaluations = <<>> THEN 0 ELSE Addend(Head(evaluations).scores[m])

\* the reduce of evalStore.ts:169-177 for one component
RECURSIVE SumOf(_, _)
SumOf(evaluations, m) ==
  IF evaluations = <<>>
    THEN 0
    ELSE Addend(Head(evaluations).scores[m]) + SumOf(Tail(evaluations), m)

\* the sum of the components ms over the list
TotalOf(evaluations, ms) ==
  (IF "faithfulness" \in ms THEN SumOf(evaluations, "faithfulness") ELSE 0)
  + (IF "relevance" \in ms THEN SumOf(evaluations, "relevance") ELSE 0)
  + (IF "completeness" \in ms THEN SumOf(evaluations, "completeness") ELSE 0)
  + (IF "citationAccuracy" \in ms
       THEN SumOf(evaluations, "citationAccuracy") ELSE 0)

\* a quotient, kept as numerator and denominator; NaN when a term of the
\* sum is NaN
Quotient(evaluations, ms, den) ==
  IF \E k \in 1..Len(evaluations), m \in ms : evaluations[k].scores[m] = NaN
    THEN NaN
    ELSE [type |-> "number", num |-> TotalOf(evaluations, ms), den |-> den]

Zero == [type |-> "number", num |-> 0, den |-> 1]

\* getStats once getEvaluations has returned, evalStore.ts:156-195
\* (lastUpdated, the time of the call, is left out)
StatsResult(evaluations) ==
  IF Len(evaluations) = 0
    THEN [totalEvaluations |-> 0, totalFlagged |-> 0,
          avgFaithfulness |-> Zero, avgRelevance |-> Zero,
          avgCompleteness |-> Zero, avgCitationAccuracy |-> Zero,
          overallAverage |-> Zero]
    ELSE LET count == Len(evaluations)
         IN  [totalEvaluations |-> count,
              totalFlagged |-> Len(FlaggedOnly(evaluations)),
              avgFaithfulness |->
                Quotient(evaluations, {"faithfulness"}, count),
              avgRelevance |-> Quotient(evaluations, {"relevance"}, count),
              avgCompleteness |->
                Quotient(evaluations, {"completeness"}, count),
              avgCitationAccuracy |->
                Quotient(evaluations, {"citationAccuracy"}, count),
              overallAverage |->
                Quotient(evaluations,
                         {"faithfulness", "relevance", "completeness",
                          "citationAccuracy"},
                         4 * count)]

\* what the function returns for the list that getEvaluations gave it;
\* getEvaluations itself returns [...evaluations], evalStore.ts:115 and 119
ReaderResult(op, arg, evaluations) ==
  IF op = "getStats"
    THEN StatsResult(evaluations)
    ELSE IF op = "getFlaggedEvaluations"
      THEN FlaggedResult(evaluations, arg)
      ELSE evaluations

IssueReaderLocked(op, arg) ==
  /\ EnterWriteLock(StoreCall(op, "queued", arg, NoValue))
  /\ UNCHANGED <<idCounter, evalFile, evaluationsCache, configFile,
                 configCache, written>>
  /\ UNCHANGED <<unreadable, cacheObjects>>
  /\ UNCHANGED schedVars

\* the functions that read the log through getEvaluations
ReaderOps == {"getEvaluations", "getStats", "getFlaggedEvaluations"}

\* getEvaluations, or a function that starts with `await getEvaluations()`,
\* is called, evalStore.ts:114-118, 154 and 204: the cached list is used
\* when there is one, otherwise the file is read
IssueReader(op, arg) ==
  /\ Len(storeCalls) < MaxStoreCalls
  /\ storeCalls' = Append(storeCalls,
       IF evaluationsCache # NoValue
         THEN [StoreCall(op, "returned", arg, NoValue)
                 EXCEPT !.data = ReaderResult(op, arg, evaluationsCache.list),
                        !.objects = cacheObjects,
                        !.quiet = NoneInFlight({"saveEvaluation", "saveConfig",
                                                "runEvaluation"})]
         ELSE [StoreCall(op, "reading", arg, NoValue)
                 EXCEPT !.quiet = NoneInFlight({"saveEvaluation", "saveConfig",
                                                "runEvaluation"})])
  /\ UNCHANGED <<idCounter, evalFile, evaluationsCache, configFile,
                 configCache, writeLock, lockOrder, written>>
  /\ UNCHANGED <<unreadable, cacheObjects>>
  /\ UNCHANGED schedVars

\* getEvaluations is called, evalStore.ts:114
IssueGetEvaluations == IssueReader("getEvaluations", NoValue)

\* fs.readFile of readEvaluationsFromDisk, evalStore.ts:104, takes the
\* contents of the file
EvaluationsFileRead ==
  \E id \in DOMAIN storeCalls :
    /\ storeCalls[id].op \in ReaderOps
    /\ storeCalls[id].pc = "reading"
    /\ storeCalls' =
         [storeCalls EXCEPT
            ![id].pc = "readDone",
            ![id].data = ReadEvaluationsFromDisk(evalFile, unreadable)]
    /\ UNCHANGED <<idCounter, evalFile, evaluationsCache, configFile,
                   configCache, writeLock, lockOrder, written>>
    /\ UNCHANGED <<unreadable, cacheObjects>>
    /\ UNCHANGED schedVars

\* getEvaluations resumes with what was read, evalStore.ts:118-119: the
\* list becomes the cache and a copy of it is returned (to the caller, or
\* to getStats or getFlaggedEvaluations, which return their result)
GetEvaluationsReturns ==
  \E id \in DOMAIN storeCalls :
    /\ storeCalls[id].op \in ReaderOps
    /\ storeCalls[id].pc = "readDone"
    /\ evaluationsCache' = Cached(storeCalls[id].data)
    /\ cacheObjects' = id
    /\ storeCalls' =
         [storeCalls EXCEPT
            ![id].pc = "returned",
            ![id].data = ReaderResult(storeCalls[id].op, storeCalls[id].arg,
                                      storeCalls[id].data),
            ![id].objects = id]
    /\ UNCHANGED <<idCounter, evalFile, configFile, configCache, writeLock,
                   lockOrder, written, unreadable>>
    /\ UNCHANGED schedVars

\* the function given to withWriteLock starts, evalStore.ts:46-48, with
\* ensureDataDir, lines 91 and 128
BodyStart ==
  \E id \in DOMAIN storeCalls :
    /\ storeCalls[id].pc = "queued"
    /\ HoldsLock(id, writeLock)
    /\ storeCalls' = [storeCalls EXCEPT ![id].pc = "mkdir",
                                        ![id].before = Files]
    /\ UNCHANGED <<idCounter, evalFile, evaluationsCache, configFile,
                   configCache, writeLock, lockOrder, written>>
    /\ UNCHANGED <<unreadable, cacheObjects>>
    /\ UNCHANGED schedVars

\* the call when the getConfig of its locked function has returned
\* `config`: saveConfig merges, evalStore.ts:93, and calls fs.writeFile,
\* line 94; saveEvaluation starts reading the log, line 132
WithBodyConfig(call, config) ==
  IF call.op = "saveConfig"
    THEN [call EXCEPT !.pc = "write", !.config = config,
                      !.data = Merge(config, call.arg)]
    ELSE [call EXCEPT !.pc = "read", !.config = config]

\* ensureDataDir returns, evalStore.ts:58-68, and getConfig is called,
\* lines 92 and 129: it returns the cached config when there is one, line
\* 74, otherwise it starts to read the config file, line 77
MkdirReturns ==
  \E id \in DOMAIN storeCalls :
    /\ storeCalls[id].pc = "mkdir"
    /\ storeCalls' =
         IF configCache # NoValue
           THEN [storeCalls EXCEPT
                   ![id] = WithBodyConfig(storeCalls[id], configCache)]
           ELSE [storeCalls EXCEPT ![id].pc = "config"]
    /\ UNCHANGED <<idCounter, evalFile, evaluationsCache, configFile,
                   configCache, writeLock, lockOrder, written>>
    /\ UNCHANGED <<unreadable, cacheObjects>>
    /\ UNCHANGED schedVars

MkdirThrowsKeepsLock ==
  \E id \in DOMAIN storeCalls :
    /\ storeCalls[id].pc = "mkdir"
    /\ storeCalls' = [storeCalls EXCEPT ![id].pc = "thrown",
                                        ![id].error = "mkdir"]
    /\ UNCHANGED <<idCounter, evalFile, evaluationsCache, configFile,
                   configCache, writeLock, lockOrder, written>>
    /\ UNCHANGED <<unreadable, cacheObjects>>
    /\ UNCHANGED schedVars

\* ensureDataDir rethrows the error of mkdir, evalStore.ts:63-66; the
\* finally of withWriteLock releases the lock
MkdirThrows ==
  \E id \in DOMAIN storeCalls :
    /\ storeCalls[id].pc = "mkdir"
    /\ storeCalls' = [storeCalls EXCEPT ![id].pc = "thrown",
                                        ![id].error = "mkdir"]
    /\ writeLock' = Release(writeLock, id)
    /\ UNCHANGED <<idCounter, evalFile, evaluationsCache, configFile,
                   configCache, lockOrder, written>>
    /\ UNCHANGED <<unreadable, cacheObjects>>
    /\ UNCHANGED schedVars

\* the getConfig of the locked function, evalStore.ts:92 and 129, resumes
\* from reading the config file, lines 77-83: the record over the defaults
\* is cached and returned, or the defaults are returned
BodyGetConfig ==
  \E id \in DOMAIN storeCalls :
    /\ storeCalls[id].pc = "config"
    /\ LET file == ReadConfigFile(configFile, unreadable)
       IN  /\ storeCalls' =
                [storeCalls EXCEPT
                   ![id] = WithBodyConfig(storeCalls[id], LoadConfig(file))]
           /\ configCache' = CacheAfterLoad(configCache, file)
    /\ UNCHANGED <<idCounter, evalFile, evaluationsCache, configFile,
                   writeLock, lockOrder, written>>
    /\ UNCHANGED <<unreadable, cacheObjects>>
    /\ UNCHANGED schedVars

CachedEvaluations(file, cache) ==
  IF cache # NoValue THEN cache.list ELSE file

\* saveEvaluation reads the log from the file and not from the cache,
\* evalStore.ts:131-132
CurrentEvaluations(file, cache) == file

\* readEvaluationsFromDisk returns inside saveEvaluation; the new list is
\* built, evalStore.ts:135-140, and fs.writeFile is called, line 143
BodyReadReturns ==
  \E id \in DOMAIN storeCalls :
    /\ storeCalls[id].pc = "read"
    /\ storeCalls' =
         [storeCalls EXCEPT
            ![id].pc = "write",
            ![id].data =
               NewEvaluations(
                 CurrentEvaluations(
                   ReadEvaluationsFromDisk(evalFile, unreadable),
                   evaluationsCache),
                              storeCalls[id].evaluation,
                              storeCalls[id].config.maxStored)]
    /\ UNCHANGED <<idCounter, evalFile, evaluationsCache, configFile,
                   configCache, writeLock, lockOrder, written>>
    /\ UNCHANGED <<unreadable, cacheObjects>>
    /\ UNCHANGED schedVars

\* fs.writeFile of evalStore.ts:94 or 143 opens its file for writing, which
\* empties it; until the new text is complete the file holds a prefix of it,
\* which JSON.parse rejects
WriteOpens ==
  \E id \in DOMAIN storeCalls :
    /\ storeCalls[id].pc = "write"
    /\ IF storeCalls[id].op = "saveConfig"
         THEN /\ configFile' = NoValue
              /\ unreadable' = unreadable \cup {ConfigFile}
              /\ UNCHANGED evalFile
         ELSE /\ evalFile' = <<>>
              /\ unreadable' = unreadable \cup {LogFile}
              /\ UNCHANGED configFile
    /\ storeCalls' = [storeCalls EXCEPT ![id].pc = "writing"]
    /\ UNCHANGED <<idCounter, evaluationsCache, configCache, writeLock,
                   lockOrder, written, cacheObjects>>
    /\ UNCHANGED schedVars

WriteTakesEffectTrimmingLog ==
  \E id \in DOMAIN storeCalls :
    /\ storeCalls[id].pc = "writing"
    /\ IF storeCalls[id].op = "saveConfig"
         THEN /\ configFile' = storeCalls[id].data
              /\ unreadable' = unreadable \ {ConfigFile}
              /\ evalFile' =
                   IF Len(evalFile) > storeCalls[id].data.maxStored
                     THEN SubSeq(evalFile, 1, storeCalls[id].data.maxStored)
                     ELSE evalFile
              /\ UNCHANGED written
         ELSE /\ evalFile' = JsonRoundTrip(storeCalls[id].data)
              /\ unreadable' = unreadable \ {LogFile}
              /\ written' = Append(written, storeCalls[id].evaluation.id)
              /\ UNCHANGED configFile
    /\ storeCalls' = [storeCalls EXCEPT ![id].pc = "written"]
    /\ UNCHANGED <<idCounter, evaluationsCache, configCache, writeLock,
                   lockOrder, cacheObjects>>
    /\ UNCHANGED schedVars

\* fs.writeFile of evalStore.ts:94 or 143 has written the whole text: the
\* file holds the new contents
WriteTakesEffect ==
  \E id \in DOMAIN storeCalls :
    /\ storeCalls[id].pc = "writing"
    /\ IF storeCalls[id].op = "saveConfig"
         THEN /\ configFile' = storeCalls[id].data
              /\ unreadable' = unreadable \ {ConfigFile}
              /\ UNCHANGED <<evalFile, written>>
         ELSE /\ evalFile' = JsonRoundTrip(storeCalls[id].data)
              /\ unreadable' = unreadable \ {LogFile}
              /\ written' = Append(written, storeCalls[id].evaluation.id)
              /\ UNCHANGED configFile
    /\ storeCalls' = [storeCalls EXCEPT ![id].pc = "written"]
    /\ UNCHANGED <<idCounter, evaluationsCache, configCache, writeLock,
                   lockOrder, cacheObjects>>
    /\ UNCHANGED schedVars

\* the write has returned: the cache is set, evalStore.ts:95 or 146, the
\* lock is released and the call returns
WriteReturns ==
  \E id \in DOMAIN storeCalls :
    /\ storeCalls[id].pc = "written"
    /\ IF storeCalls[id].op = "saveConfig"
         THEN /\ configCache' = storeCalls[id].data
              /\ UNCHANGED <<evaluationsCache, cacheObjects>>
         ELSE /\ evaluationsCache' = Cached(storeCalls[id].data)
              /\ cacheObjects' = id
              /\ UNCHANGED configCache
    /\ storeCalls' = [storeCalls EXCEPT ![id].pc = "returned"]
    /\ writeLock' = Release(writeLock, id)
    /\ UNCHANGED <<idCounter, evalFile, configFile, lockOrder, written,
                   unreadable>>
    /\ UNCHANGED schedVars

\* fs.writeFile rejects, before it has opened the file or part-way through
\* the text, which leaves the file as the rejected write left it: lines 95
\* and 146 are not reached, the finally of withWriteLock releases the lock
\* and the error reaches the caller
WriteThrows ==
  \E id \in DOMAIN storeCalls :
    /\ storeCalls[id].pc \in {"write", "writing"}
    /\ storeCalls' = [storeCalls EXCEPT ![id].pc = "thrown",
                                        ![id].error = "write"]
    /\ writeLock' = Release(writeLock, id)
    /\ UNCHANGED <<idCounter, evalFile, evaluationsCache, configFile,
                   configCache, lockOrder, written>>
    /\ UNCHANGED <<unreadable, cacheObjects>>
    /\ UNCHANGED schedVars

(* ------------------- runEvaluation and judgeResponse ------------------- *)

\* the four score components of EvalScores
Metrics == {"faithfulness", "relevance", "completeness", "citationAccuracy"}

\* a score, as a JavaScript number with an integer value
Number(n) == [type |-> "number", value |-> n]

\* a number of the judge's reply, given in tenths: Tenths(76) is 7.6
Tenths(t) == [type |-> "number", tenths |-> t]

\* the value of a field that the parsed object does not have
Undefined == [type |-> "undefined"]

\* what the parsed reply may hold for one component
RawValues == {Tenths(0), Tenths(25), Tenths(76), Undefined}

\* the parsed objects: one component is chosen freely, the other three
\* share one value
RawObjects ==
  {v \in [Metrics -> RawValues] :
     \E m \in Metrics : \A m1, m2 \in Metrics \ {m} : v[m1] = v[m2]}

\* the texts generateText may return: without a brace-delimited block, with
\* a block that JSON.parse rejects, with a block that parses to an object
Replies ==
  {[kind |-> "text", value |-> NoValue],
   [kind |-> "malformed", value |-> NoValue]}
    \cup {[kind |-> "json", value |-> v] : v \in RawObjects}

\* Math.round for a number given in tenths
Round(t) == (t + 5) \div 10

\* Math.min(5, Math.max(1, n)), evalService.ts:186
Clamp(n) == IF n < 1 THEN 1 ELSE IF n > 5 THEN 5 ELSE n

\* validateScore, evalService.ts:186: Math.round of undefined is NaN, and
\* Math.max and Math.min return NaN when an argument is NaN
ValidateScore(s) ==
  IF s.type = "number" THEN Number(Clamp(Round(s.tenths))) ELSE NaN

GetDefaultScoresHigh(reason) ==
  [threw |-> FALSE, scores |-> [m \in Metrics |-> Number(5)],
   reasoning |-> reason]

\* getDefaultScores, evalService.ts:201-209
GetDefaultScores(reason) ==
  [threw |-> FALSE, scores |-> [m \in Metrics |-> Number(3)],
   reasoning |-> reason]

\* judgeResponse once generateText has returned, evalService.ts:176-198:
\* without a match of /\{[\s\S]*\}/ the defaults are returned; JSON.parse
\* of line 183 is inside the try of line 167, and the catch of lines
\* 195-198 rethrows its SyntaxError
JudgeResponse(reply) ==
  IF reply.kind = "text"
    THEN GetDefaultScores("Invalid JSON response")
    ELSE IF reply.kind = "malformed"
      THEN [threw |-> TRUE, scores |-> NoValue, reasoning |-> "none"]
      ELSE [threw |-> FALSE,
            scores |-> [m \in Metrics |-> ValidateScore(reply.value[m])],
            reasoning |-> "reasoning of the judge"]

\* `score < config.flagThreshold`: a comparison with NaN is false
Below(score, threshold) == score.type = "number" /\ score.value < threshold

\* evalService.ts:241-245
IsFlagged(scores, threshold) == \E m \in Metrics : Below(scores[m], threshold)

\* evalService.ts:220-225, kept as the sum of the four components (four
\* times the average); NaN when a component is NaN
AverageScore(scores) ==
  IF \E m \in Metrics : scores[m] = NaN
    THEN NaN
    ELSE [type |-> "number",
          quarters |-> scores["faithfulness"].value + scores["relevance"].value
                         + scores["completeness"].value
                         + scores["citationAccuracy"].value]

\* the EvaluationResult built by runEvaluation, evalService.ts:227-246
Evaluation(id, data, judged, config) ==
  [id |-> id, query |-> data.query, scores |-> judged.scores,
   averageScore |-> AverageScore(judged.scores),
   reasoning |-> judged.reasoning,
   isFlagged |-> IsFlagged(judged.scores, config.flagThreshold)]

\* the functions that start with `await getConfig()`
ConfigReaderOps == {"runEvaluation", "getConfig", "shouldEvaluate"}

SamplesAtOrBelow(random, config) == random <= config.sampleRate

\* evalService.ts:51, Math.random() < config.sampleRate, both in percent
Samples(random, config) == random < config.sampleRate

\* shouldEvaluate once getConfig has returned, evalService.ts:49-51
ShouldEvaluateResult(config, random) ==
  IF ~config.enabled THEN FALSE ELSE Samples(random, config)

\* the call when its getConfig has returned `config`: runEvaluation goes on
\* to the judge call, getConfig and shouldEvaluate return
WithConfig(call, config) ==
  IF call.op = "runEvaluation"
    THEN [call EXCEPT !.pc = "judge", !.config = config, !.data = NoValue]
    ELSE [call EXCEPT
            !.pc = "returned",
            !.config = config,
            !.data = IF call.op = "shouldEvaluate"
                       THEN ShouldEvaluateResult(config, call.arg.random)
                       ELSE NoValue]

\* a function that starts with `await getConfig()` is called,
\* evalStore.ts:73-77: the cached config is used when there is one,
\* otherwise the config file is read
IssueConfigReader(op, arg) ==
  /\ storeCalls' = Append(storeCalls,
       IF configCache # NoValue
         THEN WithConfig(StoreCall(op, "reading", arg, NoValue), configCache)
         ELSE StoreCall(op, "reading", arg, NoValue))
  /\ UNCHANGED <<idCounter, evalFile, evaluationsCache, configFile,
                 configCache, writeLock, lockOrder, written>>
  /\ UNCHANGED <<unreadable, cacheObjects>>
  /\ UNCHANGED schedVars

\* runEvaluation(item) is called, evalService.ts:214-215: getConfig returns
\* the cached config, so that the judge is called, line 218, or starts
\* reading the config file
RunEvaluationCalled(item) ==
  /\ Len(storeCalls) < MaxStoreCalls
  /\ storeCalls' = Append(storeCalls,
       IF configCache # NoValue
         THEN [StoreCall("runEvaluation", "judge", item, NoValue)
                 EXCEPT !.config = configCache]
         ELSE StoreCall("runEvaluation", "reading", item, NoValue))
  /\ UNCHANGED <<idCounter, evalFile, evaluationsCache, configFile,
                 configCache, writeLock, lockOrder, written>>
  /\ UNCHANGED <<unreadable, cacheObjects>>
  /\ UNCHANGED schedVars

\* the consumer starts one attempt
IssueRunEvaluation ==
  /\ \A id \in DOMAIN storeCalls : storeCalls[id].op # "runEvaluation"
  /\ RunEvaluationCalled([query |-> 1])

\* the consumer starts its next attempt, evalService.ts:89-94, when the
\* attempt before it has ended
IssueNextRunEvaluation ==
  /\ \A id \in DOMAIN storeCalls :
       storeCalls[id].op = "runEvaluation" => Finished(storeCalls[id])
  /\ RunEvaluationCalled([query |-> Len(storeCalls) + 1])

\* fs.readFile of getConfig, evalStore.ts:77, takes the contents of the file
ConfigFileRead ==
  \E id \in DOMAIN storeCalls :
    /\ storeCalls[id].op \in ConfigReaderOps
    /\ storeCalls[id].pc = "reading"
    /\ storeCalls' =
         [storeCalls EXCEPT
            ![id].pc = "readDone",
            ![id].data = ReadConfigFile(configFile, unreadable)]
    /\ UNCHANGED <<idCounter, evalFile, evaluationsCache, configFile,
                   configCache, writeLock, lockOrder, written>>
    /\ UNCHANGED <<unreadable, cacheObjects>>
    /\ UNCHANGED schedVars

\* getConfig resumes, evalStore.ts:78-83: the parsed record is cached and
\* returned, or the defaults are returned; runEvaluation then calls the
\* judge, shouldEvaluate returns its decision
GetConfigReturns ==
  \E id \in DOMAIN storeCalls :
    /\ storeCalls[id].op \in ConfigReaderOps
    /\ storeCalls[id].pc = "readDone"
    /\ storeCalls' = [storeCalls EXCEPT
                        ![id] = WithConfig(storeCalls[id],
                                           LoadConfig(storeCalls[id].data))]
    /\ configCache' = IF storeCalls[id].data = NoValue
                        THEN configCache
                        ELSE LoadConfig(storeCalls[id].data)
    /\ UNCHANGED <<idCounter, evalFile, evaluationsCache, configFile,
                   writeLock, lockOrder, written>>
    /\ UNCHANGED <<unreadable, cacheObjects>>
    /\ UNCHANGED schedVars

\* generateText rejects, evalService.ts:168-174 and 195-198
JudgeCallThrows ==
  \E id \in DOMAIN storeCalls :
    /\ storeCalls[id].op = "runEvaluation"
    /\ storeCalls[id].pc = "judge"
    /\ storeCalls' = [storeCalls EXCEPT ![id].pc = "thrown",
                                        ![id].error = "judge call"]
    /\ UNCHANGED <<idCounter, evalFile, evaluationsCache, configFile,
                   configCache, writeLock, lockOrder, written>>
    /\ UNCHANGED <<unreadable, cacheObjects>>
    /\ UNCHANGED schedVars

\* generateText returns one of the texts `replies`, evalService.ts:168-174:
\* judgeResponse throws or returns scores; with scores runEvaluation builds
\* the result, lines 220-246, flagged by the config that line 215 was
\* given, and calls saveEvaluation, line 248.  `configured` records the
\* flagThreshold that getConfig returns at this moment.
JudgeCallReplies(replies) ==
  \E id \in DOMAIN storeCalls, reply \in replies :
    /\ storeCalls[id].op = "runEvaluation"
    /\ storeCalls[id].pc = "judge"
    /\ LET judged == JudgeResponse(reply)
           configured == GetConfig.flagThreshold
       IN  IF judged.threw
             THEN /\ storeCalls' = [storeCalls EXCEPT
                                      ![id].pc = "thrown",
                                      ![id].error = "judge reply",
                                      ![id].reply = reply]
                  /\ UNCHANGED <<idCounter, writeLock, lockOrder>>
             ELSE /\ storeCalls' = [storeCalls EXCEPT
                        ![id].pc = "queued",
                        ![id].reply = reply,
                        ![id].configured = configured,
                        ![id].quiet = NoneInFlight({"getEvaluations",
                                                    "getStats",
                                                    "getFlaggedEvaluations"}),
                        ![id].evaluation =
                           Evaluation(idCounter + 1, storeCalls[id].arg,
                                      judged, storeCalls[id].config)]
                  /\ idCounter' = idCounter + 1
                  /\ writeLock' = Append(writeLock, id)
                  /\ lockOrder' = Append(lockOrder, id)
    /\ UNCHANGED <<evalFile, evaluationsCache, configFile, configCache,
                   written>>
    /\ UNCHANGED <<unreadable, cacheObjects>>
    /\ UNCHANGED schedVars

\* generateText returns any of the texts
JudgeCallReturns == JudgeCallReplies(Replies)

\* replies of the judge that give the three kinds of result: the defaults,
\* scores at the upper end, and a result with a component that is missing
SampleReplies ==
  {[kind |-> "text", value |-> NoValue],
   [kind |-> "json", value |-> [m \in Metrics |-> Tenths(76)]],
   [kind |-> "json",
    value |-> [m \in Metrics |->
                 IF m = "relevance" THEN Undefined ELSE Tenths(25)]]}

\* generateText returns one of the sample texts
JudgeCallReturnsSample == JudgeCallReplies(SampleReplies)

(* --------------------------- specification ----------------------------- *)

Init ==
  /\ evaluationQueue = <<>>
  /\ isProcessing = FALSE
  /\ droppedCount = 0
  /\ active = {}
  /\ idCounter = 0
  /\ evalFile = <<>>
  /\ evaluationsCache = NoValue
  /\ calls = 0
  /\ accepted = 0
  /\ attempts = <<>>
  /\ failures = 0
  /\ configFile \in {NoValue} \cup StoredConfigs
  /\ configCache = NoValue
  /\ writeLock = <<>>
  /\ storeCalls = <<>>
  /\ lockOrder = <<>>
  /\ written = <<>>
  /\ unreadable = {}
  /\ cacheObjects = 0

ConsumerStep ==
  \/ GetConfigDone
  \/ JudgeReturns
  \/ JudgeThrows
  \/ SaveMkdirReturns
  \/ SaveGetConfigReturns
  \/ SaveWriteStarts
  \/ SaveWritten
  \/ SaveReturns
  \/ SaveThrows
  \/ SaveWriteThrows
  \/ DelayDone

Next ==
  \/ EnqueueRejected
  \/ EnqueueAccepted
  \/ GetConfigDone
  \/ JudgeReturns
  \/ JudgeThrows
  \/ SaveMkdirReturns
  \/ SaveGetConfigReturns
  \/ SaveWriteStarts
  \/ SaveWritten
  \/ SaveReturns
  \/ SaveThrows
  \/ SaveWriteThrows
  \/ DelayDone
  \/ ClearCache

Spec == Init /\ [][Next]_vars

\* The server with no config record on disk. The record decides the
\* values of maxStored and flagThreshold that an attempt uses and no branch
\* of processQueue or runEvaluation, so progress is checked from this state.
FairInit == Init /\ configFile = NoValue

\* every judge call, store write and timer of the consumer eventually ends
FairSpec == FairInit /\ [][Next]_vars /\ WF_vars(ConsumerStep)

\* the steps of the consumer that end on their own: file operations and the
\* timer of the pacing delay
LocalStep ==
  \/ GetConfigDone
  \/ SaveMkdirReturns
  \/ SaveGetConfigReturns
  \/ SaveWriteStarts
  \/ SaveWritten
  \/ SaveReturns
  \/ SaveThrows
  \/ SaveWriteThrows
  \/ DelayDone

\* The scheduler when the external scoring call need not return:
\* generateText, evalService.ts:168-174, is awaited with no timeout and no
\* abort signal, so nothing in the program ends a judge call.
UnboundedJudgeSpec == Spec /\ WF_vars(LocalStep)

\* the store on its own: calls of saveEvaluation, saveConfig and
\* getEvaluations made by concurrent request handlers, on a server that
\* starts with cold caches and with or without a config record on disk
StoreInit ==
  /\ evaluationQueue = <<>>
  /\ isProcessing = FALSE
  /\ droppedCount = 0
  /\ active = {}
  /\ idCounter = 0
  /\ evalFile = <<>>
  /\ evaluationsCache = NoValue
  /\ calls = 0
  /\ accepted = 0
  /\ attempts = <<>>
  /\ failures = 0
  /\ configFile \in {NoValue} \cup StoredConfigs
  /\ configCache = NoValue
  /\ writeLock = <<>>
  /\ storeCalls = <<>>
  /\ lockOrder = <<>>
  /\ written = <<>>
  /\ unreadable = {}
  /\ cacheObjects = 0

StoreNext ==
  \/ IssueSaveEvaluation
  \/ IssueSaveConfig
  \/ IssueGetEvaluations
  \/ EvaluationsFileRead
  \/ GetEvaluationsReturns
  \/ BodyStart
  \/ MkdirReturns
  \/ MkdirThrows
  \/ BodyGetConfig
  \/ BodyReadReturns
  \/ WriteOpens
  \/ WriteTakesEffect
  \/ WriteReturns
  \/ WriteThrows
  \/ ClearCache

StoreSpec == StoreInit /\ [][StoreNext]_vars

\* the steps of a call that went through withWriteLock: the promise chain
\* of the lock and the file operations of the locked function
WriterStep ==
  \/ BodyStart
  \/ MkdirReturns
  \/ MkdirThrows
  \/ BodyGetConfig
  \/ BodyReadReturns
  \/ WriteOpens
  \/ WriteTakesEffect
  \/ WriteReturns
  \/ WriteThrows

\* results of the consumer written and read back: attempts of the consumer
\* next to getEvaluations calls
RoundTripNext ==
  \/ IssueNextRunEvaluation
  \/ ConfigFileRead
  \/ GetConfigReturns
  \/ JudgeCallThrows
  \/ JudgeCallReturnsSample
  \/ IssueGetEvaluations
  \/ EvaluationsFileRead
  \/ GetEvaluationsReturns
  \/ BodyStart
  \/ MkdirReturns
  \/ MkdirThrows
  \/ BodyGetConfig
  \/ BodyReadReturns
  \/ WriteOpens
  \/ WriteTakesEffect
  \/ WriteReturns
  \/ WriteThrows
  \/ ClearCache

RoundTripSpec == StoreInit /\ [][RoundTripNext]_vars

\* number of saveConfig calls made while the consumer runs one attempt
MaxConfigChanges == 1

\* the handler of PATCH /api/evaluations calls saveConfig, route.ts:96
ChangeConfig ==
  /\ Cardinality({id \in DOMAIN storeCalls :
                    storeCalls[id].op = "saveConfig"}) < MaxConfigChanges
  /\ IssueSaveConfig

\* one attempt of the consumer, runEvaluation, next to saveConfig calls made
\* by the handler of PATCH /api/evaluations
JudgeNext ==
  \/ IssueRunEvaluation
  \/ ConfigFileRead
  \/ GetConfigReturns
  \/ JudgeCallThrows
  \/ JudgeCallReturns
  \/ ChangeConfig
  \/ BodyStart
  \/ MkdirReturns
  \/ MkdirThrows
  \/ BodyGetConfig
  \/ BodyReadReturns
  \/ WriteOpens
  \/ WriteTakesEffect
  \/ WriteReturns
  \/ WriteThrows
  \/ ClearCache

JudgeSpec == StoreInit /\ [][JudgeNext]_vars

\* updates that lower maxStored below the length of a log of two entries,
\* alone and next to a flagThreshold above the default one
LoweringPartials ==
  { [maxStored |-> 1],
    [flagThreshold |-> 4, maxStored |-> 1] }

\* saveConfig(partial) is called, evalStore.ts:89-90, on a server that has
\* results in its log
IssueSaveConfigLowering ==
  \E partial \in LoweringPartials :
    /\ Len(storeCalls) < MaxStoreCalls
    /\ EnterWriteLock(StoreCall("saveConfig", "queued", partial, NoValue))
    /\ UNCHANGED <<idCounter, evalFile, evaluationsCache, configFile,
                   configCache, written>>
    /\ UNCHANGED <<unreadable, cacheObjects>>
    /\ UNCHANGED schedVars

\* attempts of the consumer next to saveConfig calls made by
\* the handler of PATCH /api/evaluations
LogConfigNext ==
  \/ IssueNextRunEvaluation
  \/ ConfigFileRead
  \/ GetConfigReturns
  \/ JudgeCallThrows
  \/ JudgeCallReturnsSample
  \/ IssueSaveConfigLowering
  \/ BodyStart
  \/ MkdirReturns
  \/ MkdirThrows
  \/ BodyGetConfig
  \/ BodyReadReturns
  \/ WriteOpens
  \/ WriteTakesEffect
  \/ WriteReturns
  \/ WriteThrows
  \/ ClearCache

LogConfigSpec == StoreInit /\ [][LogConfigNext]_vars

(* ------------------------ derived observations ------------------------- *)

Min(x, y) == IF x < y THEN x ELSE y

Reverse(s) == [k \in 1..Len(s) |-> s[Len(s) + 1 - k]]

(* ------------------------- readers and the gate ------------------------ *)

\* number of calls made by the readers
MaxReadCalls == 2

\* the longest log on disk when the server starts
MaxLog == MAX_LIMIT + 1

\* results the consumer wrote: one with the default scores (3, not flagged
\* at threshold 3) and one with the lowest scores (1, flagged)
SampleResults(id) ==
  {Evaluation(id, [query |-> id], JudgeResponse(reply), DEFAULT_EVAL_CONFIG) :
     reply \in {[kind |-> "text", value |-> NoValue],
                [kind |-> "json", value |-> [m \in Metrics |-> Tenths(0)]]}}

\* the logs on disk when the server starts: entry k has id k
SampleLogs ==
  UNION {{log \in [1..n -> UNION {SampleResults(k) : k \in 1..n}] :
            \A k \in 1..n : log[k].id = k} : n \in 0..MaxLog}

\* the limits getFlaggedEvaluations is called with (the alerts route passes
\* integers): below the range, its upper end, above the range
Limits == {0, MAX_LIMIT, MAX_LIMIT + 1}

\* a server that starts with a log and possibly a config record on disk,
\* each of which may be impossible to read or to parse
ReadInit ==
  /\ evaluationQueue = <<>>
  /\ isProcessing = FALSE
  /\ droppedCount = 0
  /\ active = {}
  /\ idCounter = 0
  /\ evalFile \in SampleLogs
  /\ evaluationsCache = NoValue
  /\ calls = 0
  /\ accepted = 0
  /\ attempts = <<>>
  /\ failures = 0
  /\ configFile \in {NoValue} \cup StoredConfigs
  /\ configCache = NoValue
  /\ writeLock = <<>>
  /\ storeCalls = <<>>
  /\ lockOrder = <<>>
  /\ written = <<>>
  /\ unreadable \in SUBSET {LogFile, ConfigFile}
  /\ cacheObjects = 0

\* getEvaluations is called by a request handler
ReadGetEvaluations ==
  /\ Len(storeCalls) < MaxReadCalls
  /\ IssueReader("getEvaluations", NoValue)

\* getStats is called, evalStore.ts:153
ReadGetStats ==
  /\ Len(storeCalls) < MaxReadCalls
  /\ IssueReader("getStats", NoValue)

\* getFlaggedEvaluations(limit) is called, evalStore.ts:201
ReadGetFlagged ==
  \E limit \in Limits :
    /\ Len(storeCalls) < MaxReadCalls
    /\ IssueReader("getFlaggedEvaluations", limit)

\* getConfig is called, evalStore.ts:73
ReadGetConfig ==
  /\ Len(storeCalls) < MaxReadCalls
  /\ IssueConfigReader("getConfig", NoValue)

\* array.pop(), array.reverse() and array.push(entry) on a list
Pop(list) == SubSeq(list, 1, Len(list) - 1)

\* entry.isFlagged = !entry.isFlagged on entry k of a list
Toggle(list, k) == [list EXCEPT ![k].isFlagged = ~list[k].isFlagged]

\* a list after isFlagged of the object with the given id has been toggled:
\* every position of the list that holds the object shows the change
ToggleEntry(list, entry) ==
  [k \in 1..Len(list) |->
     IF list[k].id = entry
       THEN [list[k] EXCEPT !.isFlagged = ~list[k].isFlagged]
       ELSE list[k]]

\* The cache after a caller changed a field of entry k of the list that
\* getEvaluations returned: `[...evaluationsCache]`, evalStore.ts:115 and
\* 119, copies the array, not its entries, so while the cache holds the
\* same objects (`shared`) the entry of the cache changes with it.
CacheAfterToggle(list, cache, shared, k) ==
  IF shared /\ cache # NoValue
    THEN Cached(ToggleEntry(cache.list, list[k].id))
    ELSE cache

\* the calls that hold a list of entry objects: getEvaluations returns
\* [...evaluations], getFlaggedEvaluations a filtered slice of that copy,
\* evalStore.ts:115, 119 and 205
HoldsEntries(call) ==
  /\ call.op \in {"getEvaluations", "getFlaggedEvaluations"}
  /\ call.pc \in {"returned", "changed"}

\* The calls after the caller `id` changed a field of entry k of its list:
\* every list that was returned while the cache held the same objects has
\* the same entry objects, and shows the change.
CallsAfterToggle(id, k) ==
  [c \in DOMAIN storeCalls |->
     IF c = id
       THEN [storeCalls[c] EXCEPT !.pc = "changed",
                                  !.data = Toggle(storeCalls[c].data, k)]
       ELSE IF HoldsEntries(storeCalls[c])
               /\ storeCalls[c].objects = storeCalls[id].objects
         THEN [storeCalls[c] EXCEPT
                 !.data = ToggleEntry(storeCalls[c].data,
                                      storeCalls[id].data[k].id)]
         ELSE storeCalls[c]]

\* the caller of getEvaluations changes what it was given: it removes,
\* adds or reorders entries, or it changes a field of an entry
CallerChanges(id) ==
  /\ storeCalls[id].op = "getEvaluations"
  /\ storeCalls[id].pc = "returned"
  /\ \/ /\ storeCalls[id].data # <<>>
        /\ storeCalls' = [storeCalls EXCEPT
                            ![id].pc = "changed",
                            ![id].data = Pop(storeCalls[id].data)]
        /\ UNCHANGED evaluationsCache
     \/ /\ storeCalls[id].data # <<>>
        /\ storeCalls' = [storeCalls EXCEPT
                            ![id].pc = "changed",
                            ![id].data = Append(storeCalls[id].data,
                                                Head(storeCalls[id].data))]
        /\ UNCHANGED evaluationsCache
     \/ /\ Len(storeCalls[id].data) > 1
        /\ storeCalls' = [storeCalls EXCEPT
                            ![id].pc = "changed",
                            ![id].data = Reverse(storeCalls[id].data)]
        /\ UNCHANGED evaluationsCache
     \/ \E k \in 1..Len(storeCalls[id].data) :
          /\ storeCalls' = CallsAfterToggle(id, k)
          /\ evaluationsCache' =
               CacheAfterToggle(storeCalls[id].data, evaluationsCache,
                                storeCalls[id].objects = cacheObjects, k)
  /\ UNCHANGED <<idCounter, evalFile, configFile, configCache, writeLock,
                 lockOrder, written, unreadable, cacheObjects>>
  /\ UNCHANGED schedVars

CallerChangesReturned == \E id \in DOMAIN storeCalls : CallerChanges(id)

ReadNext ==
  \/ ReadGetEvaluations
  \/ ReadGetStats
  \/ ReadGetFlagged
  \/ ReadGetConfig
  \/ EvaluationsFileRead
  \/ GetEvaluationsReturns
  \/ ConfigFileRead
  \/ GetConfigReturns
  \/ ClearCache

ReadSpec == ReadInit /\ [][ReadNext]_vars

\* callers of getEvaluations that change the list they were given
CallerNext ==
  \/ ReadGetEvaluations
  \/ EvaluationsFileRead
  \/ GetEvaluationsReturns
  \/ CallerChangesReturned
  \/ ClearCache

CallerSpec == ReadInit /\ [][CallerNext]_vars

\* config records on disk for the gate: disabled, never sampling, always
\* sampling (sampleRate in percent)
GateConfigs ==
  {[enabled |-> FALSE, sampleRate |-> 100],
   [enabled |-> TRUE, sampleRate |-> 0],
   [enabled |-> TRUE, sampleRate |-> 100]}

\* values of Math.random(), in percent: [0, 1) is 0..99
Randoms == {0, 50, 99}

GateInit ==
  /\ evaluationQueue = <<>>
  /\ isProcessing = FALSE
  /\ droppedCount = 0
  /\ active = {}
  /\ idCounter = 0
  /\ evalFile = <<>>
  /\ evaluationsCache = NoValue
  /\ calls = 0
  /\ accepted = 0
  /\ attempts = <<>>
  /\ failures = 0
  /\ configFile \in {NoValue} \cup GateConfigs
  /\ configCache = NoValue
  /\ writeLock = <<>>
  /\ storeCalls = <<>>
  /\ lockOrder = <<>>
  /\ written = <<>>
  /\ unreadable \in SUBSET {ConfigFile}
  /\ cacheObjects = 0

\* shouldEvaluate(forceEval) is called, evalService.ts:45-52: line 46
\* returns true at once when forceEval is set, otherwise getConfig is
\* called; `random` is the value Math.random() gives on line 51
IssueShouldEvaluate ==
  \E forceEval \in BOOLEAN, random \in Randoms :
    /\ Len(storeCalls) < MaxReadCalls
    /\ IF forceEval
         THEN /\ storeCalls' = Append(storeCalls,
                   [StoreCall("shouldEvaluate", "returned",
                              [forceEval |-> TRUE, random |-> random], NoValue)
                      EXCEPT !.data = TRUE])
              /\ UNCHANGED <<idCounter, evalFile, evaluationsCache, configFile,
                             configCache, writeLock, lockOrder, written>>
              /\ UNCHANGED <<unreadable, cacheObjects>>
              /\ UNCHANGED schedVars
         ELSE IssueConfigReader("shouldEvaluate",
                                [forceEval |-> FALSE, random |-> random])

\* the gate of the chat route next to other callers of getConfig
GateNext ==
  \/ IssueShouldEvaluate
  \/ ReadGetConfig
  \/ ConfigFileRead
  \/ GetConfigReturns
  \/ ClearCache

GateSpec == GateInit /\ [][GateNext]_vars

(* ------------------------ PATCH /api/evaluations ------------------------ *)

Boolean(b) == [type |-> "boolean", value |-> b]

String == [type |-> "string"]

\* the fields of EvaluationConfig, evalTypes.ts:33-38
ConfigFields == {"enabled", "sampleRate", "flagThreshold", "maxStored"}

\* z.number().int(), for a number given in tenths
IsInt(v) == v.type = "number" /\ v.tenths % 10 = 0

\* z.number().min(lo).max(hi), lo and hi whole numbers
IsBetween(v, lo, hi) ==
  v.type = "number" /\ 10 * lo <= v.tenths /\ v.tenths <= 10 * hi

StrictNotChecked(body) == TRUE

\* .strict(), route.ts:38: no key besides those of the schema
Strict(body) == DOMAIN body \subseteq ConfigFields

ThresholdAtLeastOne(v) == IsInt(v) /\ v.tenths >= 10

\* flagThreshold: z.number().int().min(1).max(5), route.ts:36
ThresholdValid(v) == IsInt(v) /\ IsBetween(v, 1, 5)

\* ConfigUpdateSchema.safeParse(body).success, route.ts:33-38 and 76; every
\* field is optional
ConfigUpdateSchema(body) ==
  /\ Strict(body)
  /\ "enabled" \in DOMAIN body => body.enabled.type = "boolean"
  /\ "sampleRate" \in DOMAIN body => IsBetween(body.sampleRate, 0, 1)
  /\ "flagThreshold" \in DOMAIN body => ThresholdValid(body.flagThreshold)
  /\ "maxStored" \in DOMAIN body =>
       IsInt(body.maxStored) /\ IsBetween(body.maxStored, 1, 10000)

\* a value of the parsed body as the config holds it: sampleRate in percent,
\* whole numbers as integers
ConfigValue(f, v) ==
  IF v.type = "boolean"
    THEN v.value
    ELSE IF f = "sampleRate" THEN 10 * v.tenths ELSE v.tenths \div 10

\* validationResult.data, route.ts:87
Updates(body) == [f \in DOMAIN body |-> ConfigValue(f, body[f])]

\* the bodies of the requests: updates that are valid (at the ends of the
\* ranges), the empty object, and updates with an unrecognized key, a value
\* of the wrong type, a value out of range or a number that is not whole,
\* alone or next to a valid field
PatchBodies ==
  { [flagThreshold |-> Tenths(50), sampleRate |-> Tenths(10)],
    [maxStored |-> Tenths(10), enabled |-> Boolean(FALSE)],
    [sampleRate |-> Tenths(0), flagThreshold |-> Tenths(10),
     maxStored |-> Tenths(100000)],
    << >>,
    [foo |-> Tenths(10), maxStored |-> Tenths(50)],
    [flagThreshold |-> Tenths(40), sampleRate |-> Tenths(11)],
    [sampleRate |-> Tenths(-1)],
    [flagThreshold |-> Tenths(25)],
    [flagThreshold |-> Tenths(0)],
    [flagThreshold |-> Tenths(60), enabled |-> Boolean(FALSE)],
    [maxStored |-> Tenths(0)],
    [maxStored |-> Tenths(100010)],
    [maxStored |-> Tenths(15)],
    [enabled |-> String, flagThreshold |-> Tenths(40)] }

\* the response with status 400, route.ts:78-84 and 90-93
BadRequest == [status |-> 400]

\* PATCH /api/evaluations, route.ts:71-110: the body is validated and
\* rejected with status 400 when the schema fails or no field is left;
\* otherwise saveConfig(updates) is called, line 96 (the getConfig of line
\* 97 then finds the config cache set by saveConfig)
Patch ==
  \E body \in PatchBodies :
    /\ Len(storeCalls) < MaxStoreCalls
    /\ IF ConfigUpdateSchema(body) /\ DOMAIN Updates(body) # {}
         THEN EnterWriteLock([StoreCall("saveConfig", "queued", Updates(body),
                                        NoValue)
                                EXCEPT !.request = body])
         ELSE /\ storeCalls' = Append(storeCalls,
                   [StoreCall("PATCH", "returned", NoValue, NoValue)
                      EXCEPT !.reply = BadRequest, !.request = body])
              /\ UNCHANGED <<writeLock, lockOrder>>
    /\ UNCHANGED <<idCounter, evalFile, evaluationsCache, configFile,
                   configCache, written>>
    /\ UNCHANGED <<unreadable, cacheObjects>>
    /\ UNCHANGED schedVars

\* a server whose config is the default one: no record on disk, or the
\* default record
PatchInit ==
  /\ evaluationQueue = <<>>
  /\ isProcessing = FALSE
  /\ droppedCount = 0
  /\ active = {}
  /\ idCounter = 0
  /\ evalFile = <<>>
  /\ evaluationsCache = NoValue
  /\ calls = 0
  /\ accepted = 0
  /\ attempts = <<>>
  /\ failures = 0
  /\ configFile \in {NoValue, DEFAULT_EVAL_CONFIG}
  /\ configCache = NoValue
  /\ writeLock = <<>>
  /\ storeCalls = <<>>
  /\ lockOrder = <<>>
  /\ written = <<>>
  /\ unreadable = {}
  /\ cacheObjects = 0

PatchNext ==
  \/ Patch
  \/ BodyStart
  \/ MkdirReturns
  \/ MkdirThrows
  \/ BodyGetConfig
  \/ WriteOpens
  \/ WriteTakesEffect
  \/ WriteReturns
  \/ WriteThrows
  \/ ClearCache

PatchSpec == PatchInit /\ [][PatchNext]_vars

\* the consumer starts an attempt next to the readers
WriterStarts ==
  /\ Len(storeCalls) < MaxReadCalls
  /\ IssueNextRunEvaluation

\* the read path and the gate next to a write of the consumer
ReadWriteNext ==
  \/ WriterStarts
  \/ ReadGetEvaluations
  \/ ReadGetStats
  \/ ReadGetFlagged
  \/ ReadGetConfig
  \/ IssueShouldEvaluate
  \/ EvaluationsFileRead
  \/ GetEvaluationsReturns
  \/ ConfigFileRead
  \/ GetConfigReturns
  \/ JudgeCallThrows
  \/ JudgeCallReturnsSample
  \/ BodyStart
  \/ MkdirReturns
  \/ MkdirThrows
  \/ BodyGetConfig
  \/ BodyReadReturns
  \/ WriteOpens
  \/ WriteTakesEffect
  \/ WriteReturns
  \/ WriteThrows
  \/ ClearCache

ReadWriteSpec == StoreInit /\ [][ReadWriteNext]_vars


Failed(att) == att.outcome \in {"judge", "store"}

\* the attempts made on request i, as indexes into `attempts`
AttemptsOf(i) == {k \in 1..Len(attempts) : attempts[k].query = i}

FailedAttemptsOf(i) == {k \in AttemptsOf(i) : Failed(attempts[k])}

\* the entries of the durable log that were made for request i
ResultsOf(i) == {k \in 1..Len(evalFile) : evalFile[k].query = i}

\* request i is in the queue or is being attempted
InSystem(i) ==
  \/ i \in Queries(evaluationQueue)
  \/ \E k \in AttemptsOf(i) : attempts[k].outcome = "pending"

\* no attempt of the consumer has completed yet
NoAttemptCompleted ==
  \A k \in 1..Len(attempts) : attempts[k].outcome = "pending"

Idle == evaluationQueue = <<>> /\ ~isProcessing /\ active = {}

Requests == 1..MaxCalls

(* ------------------------------- claims -------------------------------- *)

\* C1: at most one processQueue activation is past its guard at any time;
\* a queueEvaluation call into an empty, idle scheduler starts exactly one,
\* and a call made while one is active (suspended in getConfig, the judge
\* call, the store write or the pacing delay) starts none.
C1_SingleConsumer ==
  /\ [](Cardinality(active) <= 1)
  /\ [][calls' # calls =>
          Cardinality(active') =
            IF active = {} /\ evaluationQueue = <<>> /\ accepted' # accepted
              THEN 1
              ELSE Cardinality(active)]_vars

C1_Witness ==
  \E a \in active :
      /\ a.pc = "save"
      /\ Len(evaluationQueue) > 0
      /\ evaluationQueue[1].retryCount = 0
      /\ evalFile # <<>>

\* C2: getQueueStatus().pending never exceeds getQueueStatus().maxSize.
C2_PendingWithinCapacity ==
  GetQueueStatus.pending <= GetQueueStatus.maxSize

\* C3 as stated: of MAX_QUEUE_SIZE + K back-to-back calls, made before any
\* attempt of the consumer completes, exactly MAX_QUEUE_SIZE return true and
\* the drop counter reads K.
C3_BurstAcceptsCapacity ==
  (NoAttemptCompleted /\ calls > MAX_QUEUE_SIZE) =>
    /\ accepted = MAX_QUEUE_SIZE
    /\ droppedCount = calls - MAX_QUEUE_SIZE

\* C3 amended: of MAX_QUEUE_SIZE + K back-to-back calls, made before any
\* attempt of the consumer completes, exactly MAX_QUEUE_SIZE + 1 return true
\* (the first item is taken off the queue before the first call returns),
\* K - 1 return false and the drop counter reads K - 1.
C3_BurstAcceptsCapacityPlusOne ==
  NoAttemptCompleted =>
    /\ accepted = Min(calls, MAX_QUEUE_SIZE + 1)
    /\ droppedCount = calls - accepted
    /\ Len(evaluationQueue) = IF accepted = 0 THEN 0 ELSE accepted - 1

C3_Witness ==
  /\ NoAttemptCompleted
  /\ calls = MAX_QUEUE_SIZE + 2
  /\ droppedCount = 1

\* C4: queueEvaluation on a queue at the maximum depth returns false, adds
\* exactly one to the drop counter and leaves the queue and isProcessing as
\* they were; below the maximum depth it returns true, appends the item at
\* the tail with retryCount = 0 and leaves the drop counter as it was.  At
\* capacity every call returns false until the consumer removes an item.
C4_EnqueueContract ==
  [][/\ calls' # calls =>
          IF Len(evaluationQueue) >= MAX_QUEUE_SIZE
            THEN /\ accepted' = accepted
                 /\ droppedCount' = droppedCount + 1
                 /\ evaluationQueue' = evaluationQueue
                 /\ isProcessing' = isProcessing
                 /\ active' = active
            ELSE /\ accepted' = accepted + 1
                 /\ droppedCount' = droppedCount
                 /\ LET item == QueueItem(accepted + 1, 0, "none")
                    IN  \/ evaluationQueue' = Append(evaluationQueue, item)
                        \/ /\ evaluationQueue = <<>>
                           /\ evaluationQueue' = <<>>
                           /\ active' =
                                {[Activation("getConfig", item, NoValue)
                                    EXCEPT !.config = configCache]}
     /\ Len(evaluationQueue') < Len(evaluationQueue) =>
          /\ calls' = calls
          /\ Len(attempts') = Len(attempts) + 1]_vars

C4_Witness ==
  /\ droppedCount > 0
  /\ Len(evaluationQueue) >= MAX_QUEUE_SIZE
  /\ accepted > MAX_QUEUE_SIZE

\* C5: first attempts are made in arrival order: the k-th first attempt the
\* consumer starts is made on the k-th accepted request, whatever retries
\* of other requests come in between.
C5_FirstAttemptsInArrivalOrder ==
  \A k \in 1..Len(attempts) :
    attempts[k].retryCount = 0 =>
      attempts[k].query =
        1 + Cardinality({j \in 1..(k-1) : attempts[j].retryCount = 0})

C5_Witness ==
  \E i, j, k \in 1..Len(attempts) :
    /\ i < j /\ j < k
    /\ attempts[i].retryCount = 0
    /\ attempts[j].retryCount > 0
    /\ attempts[k].retryCount = 0

\* C6: an item requeued after a failed attempt is attempted again only
\* after every item that was in the queue when it was requeued has been
\* attempted.
C6_RetryGoesToTail ==
  \A p, q \in 1..Len(attempts) :
    (p < q /\ attempts[p].query = attempts[q].query /\ Failed(attempts[p])) =>
      attempts[p].waiting \subseteq
        {attempts[k].query : k \in (p+1)..(q-1)}

C6_Witness ==
  \E p, q \in 1..Len(attempts) :
    /\ p < q
    /\ attempts[p].query = attempts[q].query
    /\ \E k \in (p+1)..(q-1) :
         attempts[k].retryCount = 0 /\ attempts[k].query \in attempts[p].waiting

\* the requests of the successful attempts, in the order they were taken
SucceededInOrder ==
  LET ok == SelectSeq(attempts, LAMBDA att : att.outcome = "ok")
  IN  [k \in 1..Len(ok) |-> ok[k].query]

\* the last attempt made on request i
LastAttemptOf(i) ==
  CHOOSE k \in AttemptsOf(i) : \A j \in AttemptsOf(i) : j <= k

\* C7: when the consumer takes the next item, every attempt before it has
\* ended and, if the last one succeeded, its result is in the durable log,
\* at the head; the log lists the results it holds in the reverse of the
\* order in which their attempts were taken off the queue.
C7_PersistedBeforeNextItem ==
  /\ [](\A j, k \in 1..Len(evalFile) :
          j < k => LastAttemptOf(evalFile[j].query)
                     > LastAttemptOf(evalFile[k].query))
  /\ [][Len(attempts') = Len(attempts) + 1 =>
          /\ \A k \in 1..Len(attempts) : attempts[k].outcome # "pending"
          /\ (Len(attempts) > 0 /\ attempts[Len(attempts)].outcome = "ok") =>
               /\ LogFile \notin unreadable
               /\ evalFile # <<>>
               /\ evalFile[1].query = attempts[Len(attempts)].query]_vars

C7_Witness ==
  /\ Len(evalFile) >= 2
  /\ \E k \in 1..Len(attempts) : attempts[k].outcome = "pending"
  /\ \E k \in 1..Len(attempts) : Failed(attempts[k])

\* C8: when an attempt on an item succeeds after k failed attempts, the
\* item's retryCount is k at that attempt, the item is not attempted again,
\* and when the attempt ends the log holds exactly one result for the item;
\* the log never holds two results for one item.
C8_SuccessAfterRetries ==
  /\ [](/\ \A k \in 1..Len(attempts) :
            attempts[k].outcome = "ok" =>
              LET i == attempts[k].query
              IN  /\ attempts[k].retryCount =
                       Cardinality({j \in FailedAttemptsOf(i) : j < k})
                  /\ \A j \in AttemptsOf(i) : j <= k
                  /\ i \notin Queries(evaluationQueue)
        /\ \A i \in Requests : Cardinality(ResultsOf(i)) <= 1)
  /\ [][\A k \in 1..Len(attempts) :
          (attempts[k].outcome # "ok" /\ attempts'[k].outcome = "ok") =>
            /\ LogFile \notin unreadable'
            /\ Cardinality(ResultsOf(attempts[k].query)') = 1]_vars

C8_Witness ==
  \E k \in 1..Len(attempts) :
    /\ attempts[k].outcome = "ok"
    /\ attempts[k].retryCount = 2
    /\ \A j \in FailedAttemptsOf(attempts[k].query) :
         attempts[j].outcome = "judge"

\* C9: an item whose every attempt fails in the judge call never gets an
\* EvaluationResult; after MAX_RETRIES + 1 failed attempts it is dropped
\* for good; and once the calls stop the queue becomes empty and the consumer
\* idle (so that no request is left in the queue or in an attempt).
C9_AlwaysFailingItemIsDropped ==
  /\ [](\A i \in Requests :
          /\ ResultsOf(i) # {} =>
               \/ \E k \in AttemptsOf(i) : attempts[k].outcome \in {"ok", "store"}
               \/ \E a \in active : a.item.query = i /\ a.evaluation # NoValue
          /\ (\A a \in active : a.item.query = i /\ a.evaluation # NoValue =>
                a.pc \in {"save", "saveGetConfig", "saveRead", "write",
                          "written", "delay"})
          /\ Cardinality(AttemptsOf(i)) <= MAX_RETRIES + 1
          /\ Cardinality(FailedAttemptsOf(i)) = MAX_RETRIES + 1 => ~InSystem(i))
  /\ <>[]Idle

C9_Witness ==
  /\ Idle
  /\ \E i \in Requests :
       /\ Cardinality(AttemptsOf(i)) = MAX_RETRIES + 1
       /\ \A k \in AttemptsOf(i) : attempts[k].outcome = "judge"
       /\ ResultsOf(i) = {}

\* the judge call returned a score vector in some attempt on request i
JudgedSuccessfully(i) ==
  \E k \in AttemptsOf(i) : attempts[k].outcome \in {"ok", "store"}

\* C10: every request for which a judge call returned a score
\* vector ends up with exactly one EvaluationResult in the durable log.
C10_ExactlyOncePerJudgedRequest ==
  \A i \in Requests :
    (JudgedSuccessfully(i) /\ ~InSystem(i)) => Cardinality(ResultsOf(i)) = 1

(* ------------------- claims on the judge and the store ----------------- *)

\* the attempts of runEvaluation among the calls
Runs == {id \in DOMAIN storeCalls : storeCalls[id].op = "runEvaluation"}

\* the attempts whose scoring call returned a text
Replied == {id \in Runs : storeCalls[id].reply # NoValue}

\* the attempts whose result has been written to the log
Persisted == {id \in Runs : storeCalls[id].pc \in {"written", "returned"}}

\* C11: judgeResponse fails only when the scoring call itself fails: for
\* every reply text that the scoring call returned, with or without a
\* brace-delimited block, well-formed or not, it returns a score vector
\* without raising, so that the attempt does not fail (and the item is not
\* requeued) because of the reply's content.
C11_ReplyNeverRaises ==
  \A id \in Replied : storeCalls[id].error # "judge reply"

\* C12: a reply without a brace-delimited block gives the default vector,
\* every component 3 with the rationale "Invalid JSON response", and the
\* attempt goes on to persist a result with those scores: once its write
\* has taken effect the result is the head of the durable log.
C12_NoBlockGivesDefaults ==
  \A id \in Replied :
    storeCalls[id].reply.kind = "text" =>
      /\ storeCalls[id].error # "judge reply"
      /\ \A m \in Metrics : storeCalls[id].evaluation.scores[m] = Number(3)
      /\ storeCalls[id].evaluation.reasoning = "Invalid JSON response"
      /\ id \in Persisted =>
           /\ evalFile # <<>>
           /\ evalFile[1].id = storeCalls[id].evaluation.id
           /\ \A m \in Metrics : evalFile[1].scores[m] = Number(3)
           /\ evalFile[1].reasoning = "Invalid JSON response"

C12_Witness ==
  \E id \in Replied :
    /\ storeCalls[id].reply.kind = "text"
    /\ storeCalls[id].pc = "returned"
    /\ Len(evalFile) = 1

\* C13: every one of the four score components of every persisted
\* EvaluationResult is an integer in 1..5, whatever the parsed reply held
\* for the component (out of range, fractional, missing).
C13_PersistedScoresInRange ==
  \A k \in 1..Len(evalFile) :
    \A m \in Metrics :
      /\ evalFile[k].scores[m].type = "number"
      /\ evalFile[k].scores[m].value \in 1..5

\* C14: for every persisted EvaluationResult, isFlagged is true exactly
\* when one of its four score components is strictly less than the
\* flagThreshold configured at the moment the score vector was obtained and
\* the result was created.
C14_FlaggedByThresholdAtScoring ==
  \A id \in Persisted :
    storeCalls[id].evaluation.isFlagged =
      (\E m \in Metrics :
         Below(storeCalls[id].evaluation.scores[m], storeCalls[id].configured))

\* the ids of the results that getEvaluations would return from the cache
CachedIds(cache) ==
  IF cache = NoValue THEN {} ELSE {cache.list[k].id : k \in 1..Len(cache.list)}

\* C15: when saveEvaluation fails during an item's attempt, before or
\* after its write has opened the log, the scheduler does what it does for a
\* failed judge call: below the retry ceiling the item goes to the tail of
\* the queue with retryCount + 1 and lastError set, at the ceiling the queue
\* is left as it is (the item is dropped); in both cases neither the
\* durable log nor the cache shows a result of that attempt.
C15_StoreFailureHandledLikeJudgeFailure ==
  [][\A a \in active :
       (a.pc \in {"save", "saveRead", "write"}
          /\ attempts'[CurrentAttempt(a)].outcome = "store") =>
         /\ evaluationQueue' =
              IF a.item.retryCount < MAX_RETRIES
                THEN Append(evaluationQueue,
                            [a.item EXCEPT !.retryCount = @ + 1,
                                           !.lastError = "store"])
                ELSE evaluationQueue
         /\ \A k \in 1..Len(evalFile') : evalFile'[k].id # a.evaluation.id
         /\ a.evaluation.id \notin CachedIds(evaluationsCache')
         /\ evaluationsCache' = evaluationsCache]_vars

C15_Witness ==
  /\ Len(evaluationQueue) = 2
  /\ evaluationQueue[2].lastError = "store"
  /\ evaluationQueue[2].retryCount = 2
  /\ evaluationQueue[1].retryCount = 0
  /\ \E a \in active : a.pc = "delay"
  /\ written # <<>>
  /\ LogFile \in unreadable

\* the calls of saveEvaluation that have returned
Saved ==
  {id \in DOMAIN storeCalls :
     storeCalls[id].op = "saveEvaluation" /\ storeCalls[id].pc = "returned"}

\* C16: a saveEvaluation call builds its list from the log as it is on
\* disk, with the new result at index 0 and behind it the entries the log
\* had, in their order, without the oldest ones (the tail) that do not fit
\* in maxStored (the maxStored that getConfig gave the call); the log is
\* as the call read it until the call's write opens it, and once the
\* write is complete, and when the call returns, the log is that list.
C16_NewestFirstTrimmedAtTail ==
  /\ [](\A id \in DOMAIN storeCalls :
          (storeCalls[id].op = "saveEvaluation" /\ storeCalls[id].pc = "write") =>
            LET maxStored == storeCalls[id].config.maxStored
                list == storeCalls[id].data
            IN  /\ Len(list) = Min(Len(evalFile) + 1, maxStored)
                /\ list[1] = storeCalls[id].evaluation
                /\ \A k \in 2..Len(list) : list[k] = evalFile[k - 1])
  /\ [][\A id \in DOMAIN storeCalls :
          storeCalls[id].op = "saveEvaluation" =>
            /\ (storeCalls[id].pc \in {"mkdir", "config"}
                  /\ storeCalls'[id].pc = "read") =>
                 storeCalls'[id].config = GetConfig
            /\ (storeCalls'[id].pc # storeCalls[id].pc
                  /\ storeCalls'[id].pc \in {"written", "returned"}) =>
                 /\ evalFile' = storeCalls[id].data
                 /\ LogFile \notin unreadable'
                 /\ Len(evalFile') <= storeCalls[id].config.maxStored
                 /\ evalFile'[1] = storeCalls[id].evaluation]_vars

C16_Witness ==
  /\ \A id \in DOMAIN storeCalls : id \in Saved
  /\ Len(storeCalls) = 3
  /\ Len(evalFile) = 2
  /\ \A id \in DOMAIN storeCalls : storeCalls[id].config.maxStored = 2

\* C17: a successful saveConfig(p) on a prior config c (what getConfig
\* returns to the call: the cached config, the durable record over the
\* defaults, or the defaults) writes a record in which every field given
\* in p has p's value and every other field keeps its value from c, and
\* when the call returns getConfig returns that record.
C17_SaveConfigMergesIntoPrior ==
  [][\A id \in DOMAIN storeCalls :
       storeCalls[id].op = "saveConfig" =>
         /\ (storeCalls[id].pc \in {"mkdir", "config"}
               /\ storeCalls'[id].pc = "write") =>
              storeCalls'[id].config = GetConfig
         /\ (storeCalls[id].pc = "writing" /\ storeCalls'[id].pc = "written") =>
              LET c == storeCalls[id].config
                  p == storeCalls[id].arg
              IN  /\ ConfigFile \notin unreadable'
                  /\ DOMAIN configFile' = DOMAIN c \cup DOMAIN p
                  /\ \A f \in DOMAIN p : configFile'[f] = p[f]
                  /\ \A f \in DOMAIN c \ DOMAIN p : configFile'[f] = c[f]
         /\ (storeCalls[id].pc = "written" /\ storeCalls'[id].pc = "returned") =>
              /\ GetConfig' = configFile
              /\ ConfigFile \notin unreadable'
              /\ configFile' = configFile]_vars

C17_Witness ==
  \E id \in DOMAIN storeCalls :
    /\ storeCalls[id].op = "saveConfig"
    /\ storeCalls[id].pc = "returned"
    /\ storeCalls[id].arg = [flagThreshold |-> 4]
    /\ configCache # NoValue
    /\ configCache.flagThreshold = 4
    /\ configCache.maxStored = 2
    /\ ~configCache.enabled

\* what getConfig would return
ConfigView ==
  GetConfigResult(configCache, ReadConfigFile(configFile, unreadable))

\* the cached list, if there is one, is what the log on disk reads as
LogCacheAgrees(cache, file, failing) ==
  cache # NoValue => cache.list = ReadEvaluationsFromDisk(file, failing)

\* the cached config, if there is one, is what the config file reads as
ConfigCacheAgrees(cache, file, failing) ==
  cache # NoValue => cache = LoadConfig(ReadConfigFile(file, failing))

\* C18: a saveEvaluation or saveConfig call whose durable write (or whose
\* ensureDataDir) fails ends with an error for its caller; no step it
\* takes up to and including the failure changes the cached evaluations
\* (the config cache, if it changes, was empty and now holds the durable
\* record), and a cache that agreed with its file when the call got the
\* lock agrees with it when the call has failed.
C18_FailedWriteLeavesCaches ==
  [][\A id \in DOMAIN storeCalls :
       (/\ storeCalls[id].op \in {"saveEvaluation", "saveConfig"}
        /\ storeCalls'[id].pc # storeCalls[id].pc
        /\ storeCalls'[id].pc \in {"mkdir", "config", "read", "write",
                                   "writing", "thrown"}) =>
         /\ evaluationsCache' = evaluationsCache
         /\ \/ configCache' = configCache
            \/ /\ configCache = NoValue
               /\ configCache' = LoadConfig(ReadConfigFile(configFile, unreadable))
         /\ storeCalls'[id].pc = "thrown" =>
              LET b == storeCalls[id].before
              IN  /\ storeCalls'[id].error \in {"mkdir", "write"}
                  /\ configCache' = configCache
                  /\ LogCacheAgrees(evaluationsCache, b.log, b.failing) =>
                       LogCacheAgrees(evaluationsCache', evalFile', unreadable')
                  /\ ConfigCacheAgrees(configCache, b.config, b.failing) =>
                       ConfigCacheAgrees(configCache', configFile', unreadable')]_vars

\* the calls that go through withWriteLock
Writers ==
  {id \in DOMAIN storeCalls :
     storeCalls[id].op \in {"saveEvaluation", "saveConfig"}}

\* C19: at most one saveEvaluation or saveConfig call is inside its locked
\* function at any time, and a call is inside it (or past it) only when
\* every write call issued before it has finished.
C19_WritersOneAtATime ==
  /\ Cardinality({id \in Writers : InBody(storeCalls[id])}) <= 1
  /\ \A i, j \in Writers :
       (i < j /\ (InBody(storeCalls[j]) \/ Finished(storeCalls[j]))) =>
         Finished(storeCalls[i])
  /\ lockOrder = SelectSeq([id \in DOMAIN storeCalls |-> id],
                           LAMBDA id : id \in Writers)

C19_Witness ==
  /\ Len(storeCalls) = 3
  /\ Writers = {1, 2, 3}
  /\ storeCalls[1].pc = "returned"
  /\ storeCalls[2].pc = "write"
  /\ storeCalls[3].pc = "queued"
  /\ storeCalls[1].op = "saveConfig"

\* the saveEvaluation calls that have returned, in the order they were
\* serialized
Saves ==
  SelectSeq(lockOrder,
            LAMBDA id : /\ storeCalls[id].op = "saveEvaluation"
                        /\ storeCalls[id].pc = "returned")

\* C20: once the N saveEvaluation calls that were issued have all
\* succeeded, each with maxStored >= N, the durable log holds exactly
\* their N results, newest first in the order the calls were serialized,
\* whatever getEvaluations calls and cache contents came in between.
C20_NoLostUpdates ==
  (\A id \in DOMAIN storeCalls :
     storeCalls[id].op = "saveEvaluation" =>
       /\ storeCalls[id].pc = "returned"
       /\ Len(Saves) <= storeCalls[id].config.maxStored) =>
    /\ LogFile \notin unreadable
    /\ Len(evalFile) = Len(Saves)
    /\ \A k \in 1..Len(Saves) :
         evalFile[k] = storeCalls[Saves[Len(Saves) + 1 - k]].evaluation

C20_Witness ==
  /\ Len(Saves) = 2
  /\ \A id \in DOMAIN storeCalls : storeCalls[id].pc = "returned"
  /\ \E id \in DOMAIN storeCalls : storeCalls[id].op = "getEvaluations"
  /\ Len(evalFile) = 2
  /\ evaluationsCache # Cached(evalFile)

\* every call was made while no call of the other kind was in flight
Sequential == \A id \in DOMAIN storeCalls : storeCalls[id].quiet

\* the saveEvaluation calls made before call g, in the order they were
\* serialized
SavesBefore(g) ==
  SelectSeq(lockOrder,
            LAMBDA id : id < g /\ storeCalls[id].op = "runEvaluation")

\* C21: when N saveEvaluation calls on an empty log have all succeeded
\* (N <= maxStored) and getEvaluations is called afterwards, readers and
\* writers not overlapping, it returns exactly the N results, newest first,
\* each with the field values that were written.
C21_RoundTrip ==
  \A g \in DOMAIN storeCalls :
    (/\ storeCalls[g].op = "getEvaluations"
     /\ storeCalls[g].pc = "returned"
     /\ Sequential
     /\ \A k \in 1..Len(SavesBefore(g)) :
          /\ storeCalls[SavesBefore(g)[k]].pc = "returned"
          /\ Len(SavesBefore(g)) <= storeCalls[SavesBefore(g)[k]].config.maxStored) =>
      /\ Len(storeCalls[g].data) = Len(SavesBefore(g))
      /\ \A k \in 1..Len(SavesBefore(g)) :
           storeCalls[g].data[k] =
             storeCalls[SavesBefore(g)[Len(SavesBefore(g)) + 1 - k]].evaluation

\* C22: once every saveEvaluation and getEvaluations call has completed
\* (none of them failing), the evaluations cache equals the durable log.
C22_CacheEqualsLogAtRest ==
  (/\ \A id \in DOMAIN storeCalls :
        storeCalls[id].op \in {"saveEvaluation", "getEvaluations"} =>
          storeCalls[id].pc = "returned"
   /\ evaluationsCache # NoValue) =>
    evaluationsCache.list = evalFile

\* C23: once a saveConfig call has returned (and none is in flight), a
\* getConfig call that starts returns the merged config that was written
\* durably.
C23_ConfigCacheFollowsUpdate ==
  (/\ \E id \in DOMAIN storeCalls :
        storeCalls[id].op = "saveConfig" /\ storeCalls[id].pc = "returned"
   /\ \A id \in DOMAIN storeCalls :
        storeCalls[id].op = "saveConfig" => Finished(storeCalls[id])) =>
    ConfigView = configFile

\* C24: no change a caller makes through the value getEvaluations returned
\* (removing, adding or reordering entries, changing a field of an entry)
\* alters the cached list, which is what a later getEvaluations, getStats or
\* getFlaggedEvaluations call observes.
C24_CallerChangesLeaveCache ==
  [][\A id \in DOMAIN storeCalls :
       (storeCalls[id].pc = "returned" /\ storeCalls'[id].pc = "changed") =>
         evaluationsCache' = evaluationsCache]_vars

\* the shouldEvaluate calls
GateCalls == {id \in DOMAIN storeCalls : storeCalls[id].op = "shouldEvaluate"}

\* C25: shouldEvaluate(true) returns true for every configuration and
\* without reading the configuration; shouldEvaluate(false) returns false
\* when enabled is false, false when enabled and sampleRate = 0, true when
\* enabled and sampleRate = 1; and no step of the gate changes the queue,
\* the drop counter, the durable log or the durable config.
C25_ShouldEvaluate ==
  /\ [](\A id \in GateCalls :
          LET call == storeCalls[id]
          IN  IF call.arg.forceEval
                THEN /\ call.pc = "returned"
                     /\ call.data = TRUE
                     /\ call.config = NoValue
                ELSE call.pc = "returned" =>
                       /\ ~call.config.enabled => call.data = FALSE
                       /\ (call.config.enabled /\ call.config.sampleRate = 0) =>
                            call.data = FALSE
                       /\ (call.config.enabled /\ call.config.sampleRate = 100) =>
                            call.data = TRUE)
  /\ [][<<evaluationQueue, droppedCount, evalFile, configFile>>' =
          <<evaluationQueue, droppedCount, evalFile, configFile>>]_vars

C25_Witness ==
  /\ configFile # NoValue
  /\ ~configFile.enabled
  /\ ConfigFile \notin unreadable
  /\ \E id \in GateCalls :
       /\ storeCalls[id].arg.forceEval
       /\ storeCalls[id].data = TRUE
  /\ \E id \in GateCalls :
       /\ ~storeCalls[id].arg.forceEval
       /\ storeCalls[id].pc = "returned"
       /\ ~storeCalls[id].config.enabled
       /\ storeCalls[id].data = FALSE

\* C26: queueEvaluation never throws and never waits. Every call returns
\* true or false; when it returns, no attempt has changed its outcome, an
\* attempt it started is still pending with its consumer suspended before
\* the judge call, and the log is as it was. A failure of the judge or of
\* the store changes nothing a caller of queueEvaluation is given (its
\* return value, the accepted and dropped counts): the consumer takes it
\* and goes on to its pacing delay.
C26_EnqueueNeverWaitsNorThrows ==
  [][/\ calls' = calls + 1 =>
          /\ \/ accepted' = accepted + 1 /\ droppedCount' = droppedCount
             \/ accepted' = accepted /\ droppedCount' = droppedCount + 1
          /\ Len(attempts') >= Len(attempts)
          /\ SubSeq(attempts', 1, Len(attempts)) = attempts
          /\ \A k \in (Len(attempts) + 1)..Len(attempts') :
               attempts'[k].outcome = "pending"
          /\ \A a \in active' \ active : a.pc = "getConfig"
          /\ evalFile' = evalFile
          /\ failures' = failures
     /\ failures' = failures + 1 =>
          /\ <<calls, accepted, droppedCount>>' = <<calls, accepted, droppedCount>>
          /\ \E a \in active' \ active : a.pc = "delay"]_vars

C26_Witness ==
  /\ failures >= 1
  /\ droppedCount >= 1
  /\ Len(evaluationQueue) >= 1
  /\ \E a \in active : a.pc \in {"judge", "save"}
  /\ \E k \in 1..Len(attempts) :
       attempts[k].outcome = "pending" /\ attempts[k].query = accepted

\* C27: a judge call is bounded: whether the external scoring call returns
\* or not, an attempt that is in the judge call eventually leaves it (by
\* the call's result or by a timeout that counts as a judge failure), so the
\* consumer is never suspended forever on one item.
C27_JudgeCallBounded ==
  [](\A i \in Requests :
       (\E a \in active : a.item.query = i /\ a.pc = "judge") ~>
         ~(\E a \in active : a.item.query = i /\ a.pc = "judge"))

\* C28: when the enqueue calls stop and every judge call and store write
\* returns, the queue drains: from some point on getQueueStatus reports
\* pending = 0 and processing = false, no attempt is in progress, and every
\* accepted request has either been persisted or has failed MAX_RETRIES + 1
\* times and been dropped.
C28_QueueDrains ==
  <>[](/\ GetQueueStatus.pending = 0
       /\ ~GetQueueStatus.processing
       /\ active = {}
       /\ \A i \in 1..accepted :
            (\E k \in AttemptsOf(i) : attempts[k].outcome = "ok")
              # (Cardinality(FailedAttemptsOf(i)) = MAX_RETRIES + 1))

C28_Witness ==
  /\ GetQueueStatus.pending = 0
  /\ ~GetQueueStatus.processing
  /\ active = {}
  /\ calls = MaxCalls
  /\ \E i \in 1..accepted : \E k \in AttemptsOf(i) : attempts[k].outcome = "ok"
  /\ \E i \in 1..accepted : Cardinality(FailedAttemptsOf(i)) = MAX_RETRIES + 1

\* the calls of `op` that have returned
Returned(op) ==
  {id \in DOMAIN storeCalls :
     storeCalls[id].op = op /\ storeCalls[id].pc = "returned"}

\* the call read the file itself (the cache was cold), ending on this step
ReadsFile(id) ==
  storeCalls[id].pc = "readDone" /\ storeCalls'[id].pc = "returned"

\* C29: a failed durable read is never fatal. No reader ends with an error;
\* a getConfig call that finds the config record missing or unparseable
\* returns the default config (enabled, sampleRate 0.1, flagThreshold 3,
\* maxStored 1000); a getEvaluations, getStats or getFlaggedEvaluations call
\* that finds the log missing or unparseable returns the empty list, the
\* all-zero stats, the empty list.
C29_FailedReadGivesDefaults ==
  [][\A id \in DOMAIN storeCalls :
       /\ storeCalls'[id].pc # "thrown"
       /\ storeCalls'[id].error = "none"
       /\ (ReadsFile(id) /\ storeCalls[id].op = "getConfig"
             /\ (ConfigFile \in unreadable \/ configFile = NoValue)) =>
            storeCalls'[id].config =
              [enabled |-> TRUE, sampleRate |-> 10, flagThreshold |-> 3,
               maxStored |-> 1000]
       /\ (ReadsFile(id) /\ storeCalls[id].op \in ReaderOps
             /\ (LogFile \in unreadable \/ evalFile = <<>>)) =>
            storeCalls'[id].data =
              IF storeCalls[id].op = "getStats"
                THEN [totalEvaluations |-> 0, totalFlagged |-> 0,
                      avgFaithfulness |-> Zero, avgRelevance |-> Zero,
                      avgCompleteness |-> Zero, avgCitationAccuracy |-> Zero,
                      overallAverage |-> Zero]
                ELSE <<>>]_vars

C29_Witness ==
  /\ unreadable = {LogFile, ConfigFile}
  /\ evalFile # <<>>
  /\ configFile # NoValue
  /\ Returned("getConfig") # {}
  /\ \E id \in Returned("getStats") : storeCalls[id].data.totalEvaluations = 0

\* the positions of the flagged entries of a list
FlaggedAt(list) == {j \in 1..Len(list) : list[j].isFlagged}

\* the position of the i-th flagged entry of a list
NthFlagged(list, i) ==
  CHOOSE j \in FlaggedAt(list) :
    Cardinality({x \in FlaggedAt(list) : x < j}) = i - 1

\* C30: for every log and every limit, getFlaggedEvaluations(limit) returns
\* exactly the first min(k, number of flagged entries) flagged entries of
\* the list getEvaluations gave it, in the order of the list, where k is the
\* limit clamped into [1, MAX_LIMIT]: never an unflagged entry, never more
\* than k entries.
C30_FlaggedFirstK ==
  [][\A id \in DOMAIN storeCalls' :
       (/\ storeCalls'[id].op = "getFlaggedEvaluations"
        /\ storeCalls'[id].pc = "returned"
        /\ id \in DOMAIN storeCalls => storeCalls[id].pc = "readDone") =>
         LET list == IF id \in DOMAIN storeCalls
                       THEN storeCalls[id].data
                       ELSE evaluationsCache.list
             limit == storeCalls'[id].arg
             k == IF limit < 1 THEN 1
                  ELSE IF limit > MAX_LIMIT THEN MAX_LIMIT ELSE limit
             result == storeCalls'[id].data
         IN  /\ Len(result) = Min(k, Cardinality(FlaggedAt(list)))
             /\ \A i \in 1..Len(result) : result[i] = list[NthFlagged(list, i)]]_vars

C30_Witness ==
  \E id \in Returned("getFlaggedEvaluations") :
    /\ storeCalls[id].arg = 0
    /\ LogFile \notin unreadable
    /\ Len(evalFile) > 2
    /\ ~evalFile[1].isFlagged
    /\ evalFile[2].isFlagged
    /\ evalFile[3].isFlagged
    /\ storeCalls[id].data = <<evalFile[2]>>

\* the number of entries of a list whose score for m is v
CountOf(list, m, v) ==
  Cardinality({j \in 1..Len(list) : list[j].scores[m] = Number(v)})

\* the sum of the scores for m over a list of results with scores 1..5
ScoreTotal(list, m) ==
  CountOf(list, m, 1) + 2 * CountOf(list, m, 2) + 3 * CountOf(list, m, 3)
    + 4 * CountOf(list, m, 4) + 5 * CountOf(list, m, 5)

\* C31: getStats never fails; for the empty log it returns all-zero counts
\* and averages; for a non-empty log totalEvaluations is the number of
\* entries, totalFlagged the number of entries with isFlagged = true, and
\* each per-dimension average the sum of that score over all entries divided
\* by the number of entries.
C31_StatsOverLog ==
  [][\A id \in DOMAIN storeCalls' :
       (/\ storeCalls'[id].op = "getStats"
        /\ storeCalls'[id].pc # "thrown"
        /\ storeCalls'[id].pc = "returned"
        /\ id \in DOMAIN storeCalls => storeCalls[id].pc = "readDone") =>
         LET list == IF id \in DOMAIN storeCalls
                       THEN storeCalls[id].data
                       ELSE evaluationsCache.list
             stats == storeCalls'[id].data
             Average(avg, m) ==
               IF list = <<>>
                 THEN avg.num = 0 /\ avg.den = 1
                 ELSE avg.num = ScoreTotal(list, m) /\ avg.den = Len(list)
         IN  /\ stats.totalEvaluations = Len(list)
             /\ stats.totalFlagged = Cardinality(FlaggedAt(list))
             /\ Average(stats.avgFaithfulness, "faithfulness")
             /\ Average(stats.avgRelevance, "relevance")
             /\ Average(stats.avgCompleteness, "completeness")
             /\ Average(stats.avgCitationAccuracy, "citationAccuracy")
             /\ list = <<>> => stats.overallAverage = Zero]_vars

C31_Witness ==
  \E id \in Returned("getStats") :
    /\ LogFile \notin unreadable
    /\ Len(evalFile) = 3
    /\ storeCalls[id].data.totalEvaluations = 3
    /\ storeCalls[id].data.totalFlagged = 2
    /\ storeCalls[id].data.avgRelevance.num = 5
    /\ storeCalls[id].data.avgRelevance.den = 3

\* the value v given for field f is of the wrong type, out of range, or not
\* a whole number where one is required
OutOfRange(f, v) ==
  \/ f = "enabled" /\ v.type # "boolean"
  \/ f # "enabled" /\ v.type # "number"
  \/ f = "sampleRate" /\ v.type = "number" /\ (v.tenths < 0 \/ v.tenths > 10)
  \/ f = "flagThreshold" /\ v.type = "number"
       /\ v.tenths \notin {10, 20, 30, 40, 50}
  \/ f = "maxStored" /\ v.type = "number"
       /\ ~(\E n \in {v.tenths \div 10} : n \in 1..10000 /\ v.tenths = 10 * n)

\* the body has an unrecognized field or an out-of-range value
Invalid(body) ==
  \E f \in DOMAIN body :
    f \notin {"enabled", "sampleRate", "flagThreshold", "maxStored"}
      \/ OutOfRange(f, body[f])

\* the call that a step of the PATCH handler adds
NewCall == storeCalls'[Len(storeCalls')]

\* C32: a config update with an unrecognized field or an out-of-range value
\* is rejected with a validation error and is not applied even in part: the
\* step leaves the durable config and the config cache as they were, no
\* saveConfig call is made for it, and the rejected request takes no
\* further step.
C32_InvalidUpdateRejected ==
  [][/\ (Len(storeCalls') = Len(storeCalls) + 1 /\ Invalid(NewCall.request)) =>
          /\ NewCall.op = "PATCH"
          /\ NewCall.pc = "returned"
          /\ NewCall.reply = [status |-> 400]
          /\ configFile' = configFile
          /\ configCache' = configCache
          /\ writeLock' = writeLock
     /\ \A id \in DOMAIN storeCalls :
          storeCalls[id].op = "PATCH" => storeCalls'[id] = storeCalls[id]]_vars

C32_Witness ==
  /\ configFile # NoValue
  /\ configFile.maxStored = 1
  /\ \E id \in DOMAIN storeCalls :
       /\ storeCalls[id].op = "PATCH"
       /\ storeCalls[id].request =
            [flagThreshold |-> Tenths(40), sampleRate |-> Tenths(11)]
  /\ \A id \in DOMAIN storeCalls : Finished(storeCalls[id])
  /\ configFile.flagThreshold = 3

\* a well-formed EvaluationConfig, sampleRate in percent
WellFormed(config) ==
  /\ DOMAIN config = {"enabled", "sampleRate", "flagThreshold", "maxStored"}
  /\ config.enabled \in BOOLEAN
  /\ config.sampleRate \in 0..100
  /\ config.flagThreshold \in 1..5
  /\ config.maxStored \in 1..10000

\* C36: starting from the default config, after any sequence of PATCH
\* requests the stored config (the record on disk and the cached one) has
\* exactly the four fields, enabled a boolean, sampleRate in [0,1],
\* flagThreshold an integer in [1,5], maxStored an integer in [1,10000]; and
\* a request with no fields is rejected and changes nothing.
C36_StoredConfigWellFormed ==
  /\ [](/\ configFile # NoValue => WellFormed(configFile)
        /\ configCache # NoValue => WellFormed(configCache))
  /\ [][(Len(storeCalls') = Len(storeCalls) + 1 /\ NewCall.request = << >>) =>
          /\ NewCall.op = "PATCH"
          /\ NewCall.reply = [status |-> 400]
          /\ <<configFile, configCache, writeLock>>' =
               <<configFile, configCache, writeLock>>]_vars

C36_Witness ==
  /\ configFile = [enabled |-> FALSE, sampleRate |-> 0, flagThreshold |-> 1,
                   maxStored |-> 10000]
  /\ configCache = configFile
  /\ \E id \in DOMAIN storeCalls :
       storeCalls[id].op = "PATCH" /\ storeCalls[id].request = << >>

\* the operations of the read path and of the gate
ReadPathOps ==
  {"getEvaluations", "getStats", "getFlaggedEvaluations", "getConfig",
   "shouldEvaluate"}

\* the next step of call id can be taken: its read of a file, or its return
CanStep(id) ==
  ENABLED (/\ \/ EvaluationsFileRead
              \/ GetEvaluationsReturns
              \/ ConfigFileRead
              \/ GetConfigReturns
           /\ storeCalls'[id].pc # storeCalls[id].pc)

\* C33: shouldEvaluate, getConfig, getEvaluations, getStats,
\* getFlaggedEvaluations and getQueueStatus never wait for the consumer or
\* for a writer: none of them enters the write lock, and whatever a writer
\* is doing, a call that has not returned can take its next step
\* (getQueueStatus is synchronous and always has a value).
C33_ReadersNeverWait ==
  /\ GetQueueStatus.pending = Len(evaluationQueue)
  /\ \A id \in DOMAIN storeCalls :
       storeCalls[id].op \in ReadPathOps =>
         /\ id \notin Range(writeLock)
         /\ id \notin Range(lockOrder)
         /\ storeCalls[id].pc \in {"reading", "readDone", "returned"}
         /\ storeCalls[id].pc # "returned" => CanStep(id)

C33_Witness ==
  \E w, r \in DOMAIN storeCalls :
    /\ w < r
    /\ storeCalls[w].op = "runEvaluation"
    /\ storeCalls[w].pc = "written"
    /\ HoldsLock(w, writeLock)
    /\ storeCalls[r].op = "getStats"
    /\ storeCalls[r].pc = "returned"
    /\ ~storeCalls[r].quiet

\* the items in the queue or in an attempt
ItemsInSystem ==
  Range(evaluationQueue) \cup {a.item : a \in {x \in active : x.pc # "delay"}}

\* C34: every item in the queue or in flight has 0 <= retryCount <=
\* MAX_RETRIES; a failed attempt requeues the item (at the tail, with
\* retryCount + 1) if and only if its retryCount was below MAX_RETRIES, and
\* otherwise drops it; no item is attempted more than MAX_RETRIES + 1 times.
C34_RetryCeiling ==
  /\ [](/\ \A item \in ItemsInSystem : item.retryCount \in 0..MAX_RETRIES
        /\ \A i \in Requests : Cardinality(AttemptsOf(i)) <= MAX_RETRIES + 1)
  /\ [][failures' = failures + 1 =>
          \E a \in active :
            /\ a.pc \in {"judge", "save", "saveRead", "write"}
            /\ a \notin active'
            /\ IF a.item.retryCount < MAX_RETRIES
                 THEN /\ Len(evaluationQueue') = Len(evaluationQueue) + 1
                      /\ SubSeq(evaluationQueue', 1, Len(evaluationQueue)) =
                           evaluationQueue
                      /\ evaluationQueue'[Len(evaluationQueue')].query =
                           a.item.query
                      /\ evaluationQueue'[Len(evaluationQueue')].retryCount =
                           a.item.retryCount + 1
                 ELSE /\ evaluationQueue' = evaluationQueue
                      /\ \A item \in ItemsInSystem' :
                           item.query # a.item.query]_vars

C34_Witness ==
  /\ \E i \in Requests :
       /\ Cardinality(AttemptsOf(i)) = MAX_RETRIES + 1
       /\ FailedAttemptsOf(i) = AttemptsOf(i)
       /\ \E k \in AttemptsOf(i) : attempts[k].outcome = "store"
       /\ \A item \in ItemsInSystem : item.query # i
  /\ evaluationQueue # <<>>

\* C35: the durable log never has more entries than the currently
\* configured maxStored, after any sequence of saveEvaluation and saveConfig
\* calls (stated for the states in which no call is in flight).
C35_LogWithinMaxStored ==
  (\A id \in DOMAIN storeCalls : Finished(storeCalls[id])) =>
    Len(evalFile) <= ConfigView.maxStored

\* C37: no stranded work. Whenever control is back in the event loop, a
\* non-empty queue implies that the consumer is active, so getQueueStatus
\* never reports processing = false with pending > 0; and every accepted
\* request is eventually taken by the consumer with no further call of
\* queueEvaluation, also when it arrived during the pacing delay after the
\* last item.
C37_NoStrandedWork ==
  /\ [](GetQueueStatus.pending > 0 =>
          /\ GetQueueStatus.processing
          /\ \E a \in active :
               a.pc \in {"getConfig", "judge", "save", "saveGetConfig",
                         "saveRead", "write", "written", "delay"})
  /\ \A i \in Requests : (accepted >= i) ~> (AttemptsOf(i) # {})

C37_Witness ==
  /\ isProcessing
  /\ \E a \in active : a.pc = "delay"
  /\ Len(evaluationQueue) = 1
  /\ evaluationQueue[1] = QueueItem(accepted, 0, "none")
  /\ Len(attempts) = accepted - 1
  /\ \A k \in 1..Len(attempts) : attempts[k].outcome = "ok"

\* the call at the head of the lock chain can take its next step
HeadCanStep ==
  ENABLED (/\ WriterStep
           /\ storeCalls'[Head(writeLock)].pc # storeCalls[Head(writeLock)].pc)

\* C38: the write lock is always released. A saveEvaluation or saveConfig
\* call that has ended, with a result or with an error of ensureDataDir or
\* of the write, is no longer in the lock chain; every call that has not
\* ended is in the chain, in the order of the calls; and the call at the
\* head of the chain can always take its next step, so that every write
\* queued behind a failing one, and every later one, gets to run.
C38_LockAlwaysReleased ==
  /\ \A id \in Range(lockOrder) :
       Finished(storeCalls[id]) <=> id \notin Range(writeLock)
  /\ writeLock =
       SelectSeq(lockOrder, LAMBDA id : ~Finished(storeCalls[id]))
  /\ writeLock # <<>> => HeadCanStep

C38_Witness ==
  \E a, b, c \in DOMAIN storeCalls :
    /\ a < b /\ b < c
    /\ storeCalls[a].pc = "thrown" /\ storeCalls[a].error = "mkdir"
    /\ storeCalls[b].pc = "thrown" /\ storeCalls[b].error = "write"
    /\ storeCalls[c].op = "saveEvaluation" /\ storeCalls[c].pc = "returned"
    /\ lockOrder = <<a, b, c>>
    /\ writeLock = <<>>

\* C39: the drop counter never decreases and counts exactly the
\* queueEvaluation calls that returned false: (calls that returned true) +
\* dropped = all calls; a step of the consumer, the abandoning of an item
\* whose retries are exhausted included, does not change it.
C39_DropCounterAccounting ==
  /\ [](accepted + GetQueueStatus.dropped = calls)
  /\ [][/\ droppedCount' >= droppedCount
        /\ droppedCount' # droppedCount =>
             /\ droppedCount' = droppedCount + 1
             /\ calls' = calls + 1
             /\ accepted' = accepted
             /\ evaluationQueue' = evaluationQueue
        /\ calls' = calls => droppedCount' = droppedCount]_vars

C39_Witness ==
  /\ droppedCount >= 1
  /\ accepted + droppedCount = calls
  /\ \E i \in Requests :
       /\ Cardinality(FailedAttemptsOf(i)) = MAX_RETRIES + 1
       /\ \A item \in ItemsInSystem : item.query # i

\* the saveConfig calls that are made or move forward in the step
SaveConfigSteps ==
  { id \in DOMAIN storeCalls' :
      /\ storeCalls'[id].op = "saveConfig"
      /\ \/ id \notin DOMAIN storeCalls
         \/ storeCalls'[id].pc # storeCalls[id].pc }

\* C40: no step of a saveConfig call, whatever its partial config and
\* whether the call returns or throws, changes the evaluation log on disk or
\* the evaluations cache: a lowered maxStored removes no entry and a changed
\* flagThreshold leaves the isFlagged of the stored results as it was.
C40_SaveConfigLeavesLog ==
  [][SaveConfigSteps # {} =>
       /\ evalFile' = evalFile
       /\ evaluationsCache' = evaluationsCache
       /\ cacheObjects' = cacheObjects
       /\ written' = written]_vars

C40_Witness ==
  \E id \in DOMAIN storeCalls :
    /\ storeCalls[id].op = "saveConfig"
    /\ storeCalls[id].pc = "returned"
    /\ configFile # NoValue
    /\ configFile.maxStored = 1
    /\ configFile.flagThreshold = 4
    /\ Len(evalFile) = 2
    /\ evaluationsCache # NoValue
    /\ Len(evaluationsCache.list) = 2
    /\ \E k \in 1..Len(evalFile) :
         /\ evalFile[k].isFlagged = FALSE
         /\ IsFlagged(evalFile[k].scores, configFile.flagThreshold)

====
